---- MODULE Spec2Model ----
(***************************************************************************)
(* Layout-and-paint core of the moon rendering engine, and the services    *)
(* around it.                                                              *)
(*                                                                         *)
(*   TreeBuilder     components/layout/src/tree_builder.rs                 *)
(*   RequestBuilder  components/painting/src/request_builder.rs            *)
(*   RenderEngine    render/src/engine.rs                                  *)
(*   RenderClient    main/src/render_client.rs                             *)
(*   IpcMain         components/ipc/src/lib.rs                             *)
(*   StackOfOpenElements                                                   *)
(*                   components/html/src/tree_builder/                     *)
(*                   stack_of_open_elements.rs                             *)
(*   Canvas          components/gfx/src/canvas.rs                          *)
(*                                                                         *)
(* The styled document is an input: it is chosen in Init and never         *)
(* changes.  Document nodes are numbered 1..node_count in document         *)
(* (pre-order) order; 0 stands for the document node itself, and in a box  *)
(* for "no node" (an anonymous box).                                       *)
(***************************************************************************)
EXTENDS Integers, Sequences, FiniteSets, TLC

MaxNodes == 5
MaxPaintNodes == 3
MaxLineNodes == 4
MaxInsertNodes == 4
MaxEvents == 3
MaxClients == 2
MaxMessages == 2
MaxStack == 3
MaxWidth == 65
MaxHeight == 3

VARIABLES
    \* the styled document
    node_count,      \* number of nodes below the document node
    node_parent,     \* node_parent[n]: parent of node n, 0 = the document
    node_display,    \* node_display[n]: resolved display, "block" | "inline" | "none"
    node_type,       \* node_type[n]: "element" | "text" | "doctype"
    node_tag,        \* node_tag[n]: "html" | "body" | "div"
    node_background, \* node_background[n]: resolved background-color, "transparent" | "red"
    styled_node,     \* the node that carries border and border-radius declarations, 0 = none
    style_preset,    \* which declarations it carries, see get_style_radius / get_style_border_style
    root,            \* the NodePtr handed to TreeBuilder::build: 0 = the document, else a node
    \* TreeBuilder
    pc,              \* "start" | "building" | "done" | "laid_out" | "painting" | "painted"
    boxes,           \* the arena of LayoutBox values, indexed by box id
    parent_stack,    \* TreeBuilder.parent_stack, a sequence of box ids
    todo,            \* pending steps of the depth-first walk: n > 0 = build_layout_tree(n), 0 = pop
    visited,         \* nodes build_layout_tree was called on, in call order
    result,          \* "pending" | "None" | "Some" | "panic"; Some is box 1
    \* the layout pass between the two stages
    layout_variant,  \* which of the sample geometries the layout pass produced
    lines,           \* lines[b]: the line boxes of b, each a sequence of fragments
    \* RequestBuilder
    canvas_size,
    paint_todo,      \* boxes whose process() call is pending, in call order
    paint_boxes,     \* RequestBuilder.boxes
    paint_texts,     \* RequestBuilder.texts
    processed,       \* boxes process was called on, in call order
    root_element_use_body_background,
    \* RenderClient and the RenderEngine on its worker thread
    client_pc,       \* the RenderClient value: "alive" | "dropped"
    client_ready,    \* wait_till_ready has returned
    events_clone,    \* a Receiver obtained from events() is alive
    sent,            \* the input events sent by the client, in order
    input_queue,     \* the unbounded channel of InputEvent
    output_queue,    \* the unbounded channel of OutputEvent, nothing taken out
    ready_queue,     \* the bounded(1) channel of (): number of messages in it
    engine_pc,       \* "new" | "send_ready" | "recv" | "emit_frame" | "emit_title"
                     \* | "returned_err" | "panicked"
    current,         \* the event handle_event is working on
    handled,         \* the events handle_event was called on, in call order
    has_bitmap,      \* page.bitmap() is Some
    \* IpcMain, its acceptor thread and the renderers that connect to it
    clients,         \* IpcMain.clients: the ids of the registered clients, in push order
    clients_lock,    \* who holds the mutex of clients: "free" | "receive"
    acceptor_pc,     \* "accept" | "push"
    connected,       \* number of renderers whose connect succeeded; renderer c is the c-th
    accepted,        \* number of connections the acceptor took from listener.incoming()
    inbox,           \* inbox[c]: the messages from renderer c not yet received
    inbox_open,      \* inbox_open[c]: the sending side of client c's receiver is alive
    ipc_sent,        \* ipc_sent[c]: number of messages renderer c has sent
    receive_pc,      \* the caller of receive: "idle" | "wait" | "selected"
    selected,        \* the (index, msg) pair selector.wait() returned; ok: msg is Ok
    receive_result,  \* what the last receive returned
    delivered,       \* the messages receive has returned
    \* StackOfOpenElements
    open_elements,   \* the vector, bottom first; a node is [id, tag]
    so_before,       \* the vector before the operation
    so_op,           \* the operation applied and its argument
    so_result,       \* what it returned
    \* Canvas
    frame_width,     \* frame_desc.size.width
    frame_height,    \* frame_desc.size.height
    output_buffer_size, \* output_buffer_desc.size, the size of output_buffer in bytes
    canvas_output    \* what output() did since the last resize: none, bytes (len), or panic

engine_vars == <<client_pc, client_ready, events_clone, sent, input_queue, output_queue,
                 ready_queue, engine_pc, current, handled, has_bitmap>>

ipc_vars == <<clients, clients_lock, acceptor_pc, connected, accepted, inbox, inbox_open,
              ipc_sent, receive_pc, selected, receive_result, delivered>>

stack_vars == <<open_elements, so_before, so_op, so_result>>

canvas_vars == <<frame_width, frame_height, output_buffer_size, canvas_output>>

service_vars == <<engine_vars, ipc_vars, stack_vars, canvas_vars>>

doc_vars == <<node_count, node_parent, node_display, node_type, node_tag,
              node_background, styled_node, style_preset, root, canvas_size>>

builder_vars == <<boxes, parent_stack, todo, visited, result>>

layout_vars == <<layout_variant, lines>>

paint_vars == <<paint_todo, paint_boxes, paint_texts, processed,
               root_element_use_body_background>>

core_vars == <<doc_vars, pc, builder_vars, layout_vars, paint_vars>>

vars == <<core_vars, service_vars>>

----------------------------------------------------------------------------
(* The styled document (external collaborator)                             *)

Nodes == 1..node_count

RECURSIVE AncestorsIn(_, _)
AncestorsIn(par, n) ==
    IF par[n] = 0 THEN {} ELSE {par[n]} \cup AncestorsIn(par, par[n])

\* Parent vectors of the ordered forests with n nodes numbered in pre-order.
RECURSIVE ParentVectors(_)
ParentVectors(n) ==
    IF n = 0 THEN {<<>>}
    ELSE IF n = 1 THEN {<<0>>}
    ELSE UNION { { Append(par, p) : p \in {0, n - 1} \cup AncestorsIn(par, n - 1) } :
                 par \in ParentVectors(n - 1) }

Ancestors(n) == AncestorsIn(node_parent, n)

\* node.for_each_child: the children of p in document order.
for_each_child(p) ==
    SelectSeq([i \in 1..node_count |-> i], LAMBDA i : node_parent[i] = p)

\* node.first_child(): 0 when there is none.
first_child(p) ==
    IF for_each_child(p) = <<>> THEN 0 ELSE Head(for_each_child(p))

is_document(n) == n = 0

get_style_display(n) == node_display[n]

----------------------------------------------------------------------------
(* LayoutBox (components/layout/src/layout_box.rs)                         *)

\* LayoutBox::new(node): the box kind follows the node's outer display type.
LayoutBox_new(n) ==
    [node |-> n,
     data |-> IF get_style_display(n) = "inline" THEN "inline" ELSE "block",
     children |-> <<>>]

\* LayoutBox::new_anonymous(BoxData::block_box())
new_anonymous == [node |-> 0, data |-> "block", children |-> <<>>]

is_anonymous(bs, b) == bs[b].node = 0
is_inline(bs, b) == bs[b].data = "inline"
is_block(bs, b) == bs[b].data = "block"
can_have_children(bs, b) == TRUE
has_no_child(bs, b) == bs[b].children = <<>>
last_child(bs, b) ==
    IF bs[b].children = <<>> THEN 0 ELSE bs[b].children[Len(bs[b].children)]

\* The "children are inline" classification: some direct child is inline-level.
children_are_inline(bs, b) ==
    \E i \in 1..Len(bs[b].children) : is_inline(bs, bs[b].children[i])

append_child(bs, parent, child) ==
    [bs EXCEPT ![parent].children = Append(@, child)]

\* parent.transfer_children_to_node(target): every child of parent moves, in
\* order, to the end of target's children; parent is left without children.
transfer_children_to_node(bs, parent, target) ==
    [bs EXCEPT ![target].children = @ \o bs[parent].children,
               ![parent].children = <<>>]

----------------------------------------------------------------------------
(* TreeBuilder                                                             *)

\* mutant: the display test never matches
display_is_none_never(n) == FALSE

display_is_none(n) == get_style_display(n) = "none"

\* build, lines 22-27: the node the root box is made for; 0 = None.
root_node_of(r) == IF is_document(r) THEN first_child(r) ELSE r

\* mutant: the search runs from the outermost entry of the stack
nearest_block_parent_outermost(bs, stack) ==
    LET found == { i \in 1..Len(stack) :
                     ~is_inline(bs, stack[i]) /\ can_have_children(bs, stack[i]) }
    IN IF found = {} THEN 0
       ELSE stack[CHOOSE i \in found : \A j \in found : i <= j]

\* get_parent_for_block, lines 84-88: the innermost stack entry that is not
\* inline and can have children; 0 when there is none (the expect fails).
nearest_block_parent(bs, stack) ==
    LET found == { i \in 1..Len(stack) :
                     ~is_inline(bs, stack[i]) /\ can_have_children(bs, stack[i]) }
    IN IF found = {} THEN 0
       ELSE stack[CHOOSE i \in found : \A j \in found : j <= i]

\* mutant: the children of the parent are wrapped whatever they are
needs_anonymous_wrapper_always(bs, parent) == TRUE

\* get_parent_for_block, line 90
needs_anonymous_wrapper(bs, parent) ==
    ~has_no_child(bs, parent) /\ children_are_inline(bs, parent)

get_parent_for_block(bs, stack) ==
    LET parent == nearest_block_parent(bs, stack) IN
    IF parent = 0 THEN [boxes |-> bs, parent |-> 0]
    ELSE IF needs_anonymous_wrapper(bs, parent)
    THEN LET bs1 == Append(bs, new_anonymous)
             anonymous == Len(bs1)
             bs2 == transfer_children_to_node(bs1, parent, anonymous)
         IN [boxes |-> append_child(bs2, parent, anonymous), parent |-> parent]
    ELSE [boxes |-> bs, parent |-> parent]

\* mutant: the trailing anonymous block is never reused
require_anonymous_box_always(bs, parent) == TRUE

\* mutant: an existing last child is reused whatever it is
require_anonymous_box_only_when_empty(bs, parent) == last_child(bs, parent) = 0

\* get_parent_for_inline, lines 121-124
require_anonymous_box(bs, parent) ==
    IF last_child(bs, parent) # 0
    THEN ~(is_anonymous(bs, last_child(bs, parent))
           /\ children_are_inline(bs, last_child(bs, parent)))
    ELSE TRUE

\* mutant: the inline box goes straight into the innermost parent
get_parent_for_inline_unwrapped(bs, stack) ==
    IF stack = <<>> THEN [boxes |-> bs, parent |-> 0]
    ELSE [boxes |-> bs, parent |-> stack[Len(stack)]]

\* mutant: a reused trailing anonymous block is appended to the parent again
get_parent_for_inline_reappended(bs, stack) ==
    IF stack = <<>> THEN [boxes |-> bs, parent |-> 0]
    ELSE LET parent == stack[Len(stack)] IN
         IF children_are_inline(bs, parent)
         THEN [boxes |-> bs, parent |-> parent]
         ELSE LET bs1 == IF require_anonymous_box(bs, parent)
                         THEN append_child(Append(bs, new_anonymous), parent, Len(bs) + 1)
                         ELSE append_child(bs, parent, last_child(bs, parent))
              IN [boxes |-> bs1, parent |-> last_child(bs1, parent)]

get_parent_for_inline(bs, stack) ==
    IF stack = <<>> THEN [boxes |-> bs, parent |-> 0]
    ELSE LET parent == stack[Len(stack)] IN
         IF children_are_inline(bs, parent)
         THEN [boxes |-> bs, parent |-> parent]
         ELSE LET bs1 == IF require_anonymous_box(bs, parent)
                         THEN append_child(Append(bs, new_anonymous), parent, Len(bs) + 1)
                         ELSE bs
              IN [boxes |-> bs1, parent |-> last_child(bs1, parent)]

\* TreeBuilder::build up to the first recursive call (lines 21-38).
build ==
    /\ pc = "start"
    /\ LET root_node == root_node_of(root) IN
       IF root_node = 0 \/ display_is_none(root_node)
       THEN /\ pc' = "done"
            /\ result' = "None"
            /\ UNCHANGED <<boxes, parent_stack, todo>>
       ELSE /\ boxes' = <<LayoutBox_new(root_node)>>
            /\ parent_stack' = <<1>>
            /\ todo' = for_each_child(root_node) \o <<0>>
            /\ pc' = "building"
            /\ UNCHANGED result
    /\ UNCHANGED <<service_vars, doc_vars, visited, layout_vars, paint_vars>>

\* TreeBuilder::build_layout_tree up to its recursive calls (lines 48-65).
build_layout_tree ==
    /\ pc = "building"
    /\ todo # <<>>
    /\ Head(todo) > 0
    /\ LET node == Head(todo) IN
       /\ visited' = Append(visited, node)
       /\ IF display_is_none(node)
          THEN /\ todo' = Tail(todo)
               /\ UNCHANGED <<boxes, parent_stack, pc, result>>
          ELSE LET bs1 == Append(boxes, LayoutBox_new(node))
                   layout_box == Len(bs1)
                   r == IF is_inline(bs1, layout_box)
                        THEN get_parent_for_inline(bs1, parent_stack)
                        ELSE get_parent_for_block(bs1, parent_stack)
               IN IF r.parent = 0
                  THEN /\ pc' = "done"
                       /\ result' = "panic"
                       /\ UNCHANGED <<boxes, parent_stack, todo>>
                  ELSE /\ boxes' = append_child(r.boxes, r.parent, layout_box)
                       /\ parent_stack' = Append(parent_stack, layout_box)
                       /\ todo' = for_each_child(node) \o <<0>> \o Tail(todo)
                       /\ UNCHANGED <<pc, result>>
    /\ UNCHANGED <<service_vars, doc_vars, layout_vars, paint_vars>>

\* mutant: the box stays on the stack after its children were walked
pop_parent_kept ==
    /\ pc = "building"
    /\ todo # <<>>
    /\ Head(todo) = 0
    /\ parent_stack' = parent_stack
    /\ todo' = Tail(todo)
    /\ IF Tail(todo) = <<>>
       THEN pc' = "done" /\ result' = "Some"
       ELSE UNCHANGED <<pc, result>>
    /\ UNCHANGED <<service_vars, doc_vars, boxes, visited, layout_vars, paint_vars>>

\* The pop after the children of a node were walked (lines 68 and 41-43).
pop_parent ==
    /\ pc = "building"
    /\ todo # <<>>
    /\ Head(todo) = 0
    /\ parent_stack' = SubSeq(parent_stack, 1, Len(parent_stack) - 1)
    /\ todo' = Tail(todo)
    /\ IF Tail(todo) = <<>>
       THEN pc' = "done" /\ result' = "Some"
       ELSE UNCHANGED <<pc, result>>
    /\ UNCHANGED <<service_vars, doc_vars, boxes, visited, layout_vars, paint_vars>>

----------------------------------------------------------------------------
(* Resolved style values read by the painter (external collaborator)       *)

None == [some |-> FALSE]
Some(v) == [some |-> TRUE, value |-> v]

Corners == <<"top_left", "top_right", "bottom_left", "bottom_right">>
Edges == <<"top", "right", "bottom", "left">>

\* Presets of the styled node: 0 declares nothing, k in 1..4 declares the
\* k-th corner radius and the k-th border edge, 5 declares all of them.
declared(n, k) ==
    n = styled_node /\ (style_preset = 5 \/ style_preset = k)

\* node.get_style(Border<corner>Radius): BorderRadius(horizontal, vertical), in px
get_style_radius(n, k) == IF declared(n, k) THEN <<50, 3>> ELSE <<0, 0>>

\* Values of a border-style property: Value::BorderStyle(style), or a value
\* of another kind.
BorderStyle(style) == [kind |-> "BorderStyle", style |-> style]
OtherValue == [kind |-> "Auto"]

\* node.get_style(Border<edge>Style): presets 1..4 declare one solid edge,
\* preset 5 declares a different value on each edge.
get_style_border_style(n, k) ==
    IF n = styled_node /\ style_preset = 5
    THEN <<BorderStyle("dotted"), OtherValue, BorderStyle("solid"), BorderStyle("none")>>[k]
    ELSE IF declared(n, k) THEN BorderStyle("solid") ELSE BorderStyle("none")

\* color_from_value(node.get_style(property)) of a property that is a color
get_style_color(n, property) == [node |-> n, property |-> property]

get_style_background(n) == node_background[n]

get_style_font_size(n) == [node |-> n, property |-> "FontSize"]

\* utils::is_zero on a border-radius value
is_zero(radius) == radius[1] = 0 /\ radius[2] = 0

\* utils::to_radii: the horizontal radius is held within the box width
to_radii(radius, width, font_size) ==
    [horizontal |-> IF radius[1] > width THEN width ELSE radius[1],
     vertical |-> radius[2]]

----------------------------------------------------------------------------
(* Geometry and line boxes, as left by the layout pass                     *)

padding_box_absolute(b) ==
    [x |-> 2 * b * layout_variant, y |-> b + layout_variant,
     width |-> 10 + b, height |-> 5 + b]

border_box_absolute(b) ==
    [x |-> padding_box_absolute(b).x - 1, y |-> padding_box_absolute(b).y - 1,
     width |-> padding_box_absolute(b).width + 2,
     height |-> padding_box_absolute(b).height + 2]

absolute_location(b) ==
    [x |-> padding_box_absolute(b).x + 1, y |-> padding_box_absolute(b).y + 1]

is_root_element(bs, b) == ~is_anonymous(bs, b) /\ node_tag[bs[b].node] = "html"
is_body_element(bs, b) == ~is_anonymous(bs, b) /\ node_tag[bs[b].node] = "body"

is_text_run(bs, b) == ~is_anonymous(bs, b) /\ node_type[bs[b].node] = "text"

\* One fragment per inline-level child of the containing block b.
fragments_of(b) ==
    [i \in 1..Len(boxes[b].children) |->
        [data |-> IF is_text_run(boxes, boxes[b].children[i]) THEN "Text" ELSE "Box",
         layout_box |-> boxes[b].children[i],
         content |-> [text_of |-> boxes[boxes[b].children[i]].node],
         offset |-> [x |-> 3 * i, y |-> i],
         size |-> [width |-> 2 + i, height |-> 1 + i]]]

\* Variant 1 puts the fragments on one line, variant 2 one fragment per line.
lines_of(b, variant) ==
    IF ~(is_block(boxes, b) /\ children_are_inline(boxes, b)) THEN <<>>
    ELSE IF variant = 1 THEN << [fragments |-> fragments_of(b)] >>
    ELSE [i \in 1..Len(boxes[b].children) |-> [fragments |-> <<fragments_of(b)[i]>>]]

\* The box and line layout pass that runs between the two stages.
layout ==
    /\ pc = "done"
    /\ result = "Some"
    /\ \E variant \in {1, 2} :
          /\ layout_variant' = variant
          /\ lines' = [b \in 1..Len(boxes) |-> lines_of(b, variant)]
    /\ pc' = "laid_out"
    /\ UNCHANGED <<service_vars, doc_vars, builder_vars, paint_vars>>

\* The boxes below b in pre-order, b itself left out.
RECURSIVE boxes_below(_)
boxes_below(b) ==
    LET RECURSIVE below_all(_)
        below_all(cs) ==
            IF cs = <<>> THEN <<>>
            ELSE <<Head(cs)>> \o boxes_below(Head(cs)) \o below_all(Tail(cs))
    IN below_all(boxes[b].children)

\* The boxes a fragment of the lines of b may refer to: b and the boxes below.
fragment_boxes(b) == <<b>> \o boxes_below(b)

\* Fragment data of any shape: one fragment per box of fragment_boxes(b),
\* anonymous ones included.  With texts_only every fragment is a text
\* fragment, otherwise the text runs are and the others are element
\* fragments.
fragments_any(b, texts_only) ==
    [i \in 1..Len(fragment_boxes(b)) |->
        [data |-> IF texts_only \/ is_text_run(boxes, fragment_boxes(b)[i])
                  THEN "Text" ELSE "Box",
         layout_box |-> fragment_boxes(b)[i],
         content |-> [text_of |-> boxes[fragment_boxes(b)[i]].node],
         offset |-> [x |-> 3 * i, y |-> i],
         size |-> [width |-> 2 + i, height |-> 1 + i]]]

lines_any(b, variant, texts_only) ==
    IF ~(is_block(boxes, b) /\ children_are_inline(boxes, b)) THEN <<>>
    ELSE IF variant = 1 THEN << [fragments |-> fragments_any(b, texts_only)] >>
    ELSE [i \in 1..Len(fragment_boxes(b)) |->
             [fragments |-> <<fragments_any(b, texts_only)[i]>>]]

\* A layout pass that leaves line and fragment data of any shape.
layout_any ==
    /\ pc = "done"
    /\ result = "Some"
    /\ \E variant \in {1, 2}, texts_only \in BOOLEAN :
          /\ layout_variant' = variant
          /\ lines' = [b \in 1..Len(boxes) |-> lines_any(b, variant, texts_only)]
    /\ pc' = "laid_out"
    /\ UNCHANGED <<service_vars, doc_vars, builder_vars, paint_vars>>

----------------------------------------------------------------------------
(* RequestBuilder                                                          *)

\* mutant: the rectangle is left at the containing block's location
translated_rect_at_location(location, size, offset) ==
    [x |-> location.x, y |-> location.y, width |-> size.width, height |-> size.height]

\* Rect::from((location, size)) followed by rect.translate(dx, dy)
translated_rect(location, size, offset) ==
    [x |-> location.x + offset.x, y |-> location.y + offset.y,
     width |-> size.width, height |-> size.height]

\* mutant: every edge takes the color of the top edge
compute_border_top_color(node, k) ==
    IF get_style_border_style(node, k) = BorderStyle("none") THEN None
    ELSE IF get_style_border_style(node, k).kind = "BorderStyle"
    THEN Some([style |-> get_style_border_style(node, k).style,
               color |-> get_style_color(node, <<"BorderColor", Edges[1]>>)])
    ELSE None

\* compute_border!, lines 193-204
compute_border(node, k) ==
    IF get_style_border_style(node, k) = BorderStyle("none") THEN None
    ELSE IF get_style_border_style(node, k).kind = "BorderStyle"
    THEN Some([style |-> get_style_border_style(node, k).style,
               color |-> get_style_color(node, <<"BorderColor", Edges[k]>>)])
    ELSE None

compute_borders(layout_box) ==
    IF is_anonymous(boxes, layout_box)
    THEN [top |-> None, right |-> None, bottom |-> None, left |-> None]
    ELSE [top |-> compute_border(boxes[layout_box].node, 1),
          right |-> compute_border(boxes[layout_box].node, 2),
          bottom |-> compute_border(boxes[layout_box].node, 3),
          left |-> compute_border(boxes[layout_box].node, 4)]

\* mutant: one zero radius is enough to drop the rounded corners
has_no_border_radius_any(node) ==
    \/ is_zero(get_style_radius(node, 1))
    \/ is_zero(get_style_radius(node, 3))
    \/ is_zero(get_style_radius(node, 2))
    \/ is_zero(get_style_radius(node, 4))

\* mutant: the bottom-right radius is not looked at
has_no_border_radius_three(node) ==
    /\ is_zero(get_style_radius(node, 1))
    /\ is_zero(get_style_radius(node, 3))
    /\ is_zero(get_style_radius(node, 2))

\* compute_border_radius_corner, lines 224-227
has_no_border_radius(node) ==
    /\ is_zero(get_style_radius(node, 1))
    /\ is_zero(get_style_radius(node, 3))
    /\ is_zero(get_style_radius(node, 2))
    /\ is_zero(get_style_radius(node, 4))

compute_border_radius_corner(layout_box) ==
    IF is_anonymous(boxes, layout_box) THEN None
    ELSE LET node == boxes[layout_box].node
             width == border_box_absolute(layout_box).width
             font_size == get_style_font_size(node)
         IN IF has_no_border_radius(node) THEN None
            ELSE Some([k \in 1..4 |-> to_radii(get_style_radius(node, k), width, font_size)])

\* mutant: a transparent root does not delegate
delegation_after_never(layout_box, use_body_background) == use_body_background

\* build_paint_box, lines 139-148: the delegation flag after the box was seen
delegation_after(layout_box, use_body_background) ==
    IF is_root_element(boxes, layout_box)
    THEN get_style_background(boxes[layout_box].node) = "transparent"
    ELSE use_body_background

\* mutant: the body keeps its own rectangle
body_rect_own(layout_box, rect, use_body_background) == rect

\* build_paint_box, lines 156-161
body_rect(layout_box, rect, use_body_background) ==
    IF is_body_element(boxes, layout_box) /\ use_body_background
    THEN [x |-> 0, y |-> 0, width |-> canvas_size.width, height |-> canvas_size.height]
    ELSE rect

\* build_paint_box: the Option<PaintBox> it returns and the value it leaves in
\* self.root_element_use_body_background.  The field layout_box of the paint
\* box is not in the program: it records the box the paint box was made for.
build_paint_box(layout_box, override_rect, use_body_background) ==
    IF is_anonymous(boxes, layout_box)
    THEN [paint_box |-> None, use_body_background |-> use_body_background]
    ELSE LET node == boxes[layout_box].node
             rect0 == IF override_rect.some THEN override_rect.value
                      ELSE padding_box_absolute(layout_box)
             flag == delegation_after(layout_box, use_body_background)
             rect == body_rect(layout_box, rect0, flag)
             maybe_corners == compute_border_radius_corner(layout_box)
         IN IF is_root_element(boxes, layout_box) /\ flag
            THEN [paint_box |-> None, use_body_background |-> flag]
            ELSE [paint_box |-> Some(
                     [layout_box |-> layout_box,
                      rect |-> IF maybe_corners.some
                               THEN [tag |-> "RRect", rect |-> rect,
                                     corners |-> maybe_corners.value]
                               ELSE [tag |-> "Rect", rect |-> rect],
                      background_color |-> get_style_background(node),
                      borders |-> compute_borders(layout_box),
                      border_rect |-> border_box_absolute(layout_box)]),
                  use_body_background |-> flag]

\* paint_functions::background::paint_background: the display command drawn
\* for the background of a layout node.
paint_background(layout_node) ==
    IF is_anonymous(boxes, layout_node) THEN None
    ELSE LET render_node == boxes[layout_node].node
             rect == padding_box_absolute(layout_node)
             width == border_box_absolute(layout_node).width
         IN IF /\ is_zero(get_style_radius(render_node, 1))
               /\ is_zero(get_style_radius(render_node, 3))
               /\ is_zero(get_style_radius(render_node, 2))
               /\ is_zero(get_style_radius(render_node, 4))
            THEN Some([command |-> "FillRect", rect |-> rect,
                       color |-> get_style_background(render_node)])
            ELSE Some([command |-> "FillRRect", rect |-> rect,
                       corners |-> [k \in 1..4 |->
                           to_radii(get_style_radius(render_node, k), width,
                                    get_style_font_size(render_node))],
                       color |-> get_style_background(render_node)])

\* All fragments of the lines of b, line by line.
RECURSIVE fragments_in_order(_)
fragments_in_order(ls) ==
    IF ls = <<>> THEN <<>> ELSE Head(ls).fragments \o fragments_in_order(Tail(ls))

\* process_lines, the loop body applied to the fragments frs in order:
\* st = [texts, use_body_background, panic].
RECURSIVE process_fragments(_, _, _)
process_fragments(frs, containing_block, st) ==
    IF frs = <<>> \/ st.panic THEN st
    ELSE LET fragment == Head(frs)
             rect == translated_rect(absolute_location(containing_block),
                                     fragment.size, fragment.offset)
         IN IF fragment.data = "Box" /\ ~is_anonymous(boxes, fragment.layout_box)
            THEN \* the paint box that build_paint_box returns is dropped
                 process_fragments(Tail(frs), containing_block,
                    [st EXCEPT !.use_body_background =
                        build_paint_box(fragment.layout_box, Some(rect), @).use_body_background])
            ELSE IF fragment.data = "Text"
            THEN IF is_anonymous(boxes, fragment.layout_box)
                 THEN [st EXCEPT !.panic = TRUE]
                 ELSE process_fragments(Tail(frs), containing_block,
                        [st EXCEPT !.texts = Append(@,
                            [layout_box |-> fragment.layout_box,
                             content |-> fragment.content,
                             color |-> get_style_color(boxes[fragment.layout_box].node, "Color"),
                             font_size |-> get_style_font_size(boxes[fragment.layout_box].node),
                             rect |-> rect])])
            ELSE process_fragments(Tail(frs), containing_block, st)

process_lines(containing_block, st) ==
    process_fragments(fragments_in_order(lines[containing_block]), containing_block, st)

\* RequestBuilder::new and the call of process on the root box (lines 60-70).
request_build ==
    /\ pc = "laid_out"
    /\ paint_todo' = <<1>>
    /\ paint_boxes' = <<>>
    /\ paint_texts' = <<>>
    /\ processed' = <<>>
    /\ root_element_use_body_background' = FALSE
    /\ pc' = "painting"
    /\ UNCHANGED <<service_vars, doc_vars, builder_vars, layout_vars>>

\* mutant: the children are walked twice
calls_after_process_twice(layout_box, pending) ==
    boxes[layout_box].children \o boxes[layout_box].children \o pending

\* mutant: the children of an anonymous box are not processed
calls_after_process_skip_anonymous(layout_box, pending) ==
    IF is_anonymous(boxes, layout_box) THEN pending
    ELSE boxes[layout_box].children \o pending

\* mutant: the children are processed after the calls already pending
calls_after_process_deferred(layout_box, pending) ==
    pending \o boxes[layout_box].children

\* process, line 86: the calls of process still to run, once layout_box was
\* handled: its children in order, then the calls that were already pending.
calls_after_process(layout_box, pending) ==
    boxes[layout_box].children \o pending

\* RequestBuilder::process on one box, up to its recursive calls (lines 77-86);
\* when no call is left, build returns the PaintRequest.
process ==
    /\ pc = "painting"
    /\ paint_todo # <<>>
    /\ LET layout_box == Head(paint_todo)
           made == build_paint_box(layout_box, None, root_element_use_body_background)
           st0 == [texts |-> paint_texts,
                   use_body_background |-> made.use_body_background,
                   panic |-> FALSE]
           st == IF is_block(boxes, layout_box) /\ children_are_inline(boxes, layout_box)
                 THEN process_lines(layout_box, st0)
                 ELSE st0
       IN /\ paint_boxes' = IF made.paint_box.some
                            THEN Append(paint_boxes, made.paint_box.value)
                            ELSE paint_boxes
          /\ paint_texts' = st.texts
          /\ processed' = Append(processed, layout_box)
          /\ root_element_use_body_background' = st.use_body_background
          /\ IF st.panic
             THEN pc' = "paint_panic" /\ UNCHANGED paint_todo
             ELSE /\ paint_todo' = calls_after_process(layout_box, Tail(paint_todo))
                  /\ pc' = IF calls_after_process(layout_box, Tail(paint_todo)) = <<>>
                           THEN "painted" ELSE "painting"
    /\ UNCHANGED <<service_vars, doc_vars, builder_vars, layout_vars>>

----------------------------------------------------------------------------
Displays == {"block", "inline", "none"}

InitDocument(max) ==
    /\ node_count \in 0..max
    /\ node_parent \in ParentVectors(node_count)
    /\ node_display \in [1..node_count -> Displays]
    /\ root \in {0, 1}
    \* a node handed to build directly is the root of the whole tree
    /\ root = 1 => node_count >= 1 /\ \A n \in 2..node_count : node_parent[n] # 0

\* Only a leading child of the document (a doctype) is neither element nor text.
LeadingDoctype(n) ==
    n = 1 /\ root = 0 /\ \A m \in 1..node_count : node_parent[m] # 1

InitBuilder ==
    /\ pc = "start"
    /\ boxes = <<>>
    /\ parent_stack = <<>>
    /\ todo = <<>>
    /\ visited = <<>>
    /\ result = "pending"

InitPainter ==
    /\ layout_variant = 0
    /\ lines = <<>>
    /\ paint_todo = <<>>
    /\ paint_boxes = <<>>
    /\ paint_texts = <<>>
    /\ processed = <<>>
    /\ root_element_use_body_background = FALSE

\* The client and the engine before RenderClient::new.
InitEngine ==
    /\ client_pc = "alive"
    /\ client_ready = FALSE
    /\ events_clone = FALSE
    /\ sent = <<>>
    /\ input_queue = <<>>
    /\ output_queue = <<>>
    /\ ready_queue = 0
    /\ engine_pc = "new"
    /\ current = [id |-> 0, kind |-> "none"]
    /\ handled = <<>>
    /\ has_bitmap = FALSE

\* IpcMain::new (lib.rs lines 32-36) and run (lines 38-55): no client yet.
InitIpc ==
    /\ clients = <<>>
    /\ clients_lock = "free"
    /\ acceptor_pc = "accept"
    /\ connected = 0
    /\ accepted = 0
    /\ inbox = [c \in 1..MaxClients |-> <<>>]
    /\ inbox_open = [c \in 1..MaxClients |-> TRUE]
    /\ ipc_sent = [c \in 1..MaxClients |-> 0]
    /\ receive_pc = "idle"
    /\ selected = [index |-> 0, ok |-> FALSE, msg |-> [from |-> 0, n |-> 0]]
    /\ receive_result = [kind |-> "none"]
    /\ delivered = {}

\* StackOfOpenElements::new (stack_of_open_elements.rs lines 30-32)
InitStackEmpty ==
    /\ open_elements = <<>>
    /\ so_before = <<>>
    /\ so_op = [name |-> "none"]
    /\ so_result = [kind |-> "none"]

\* Canvas::new (canvas.rs lines 54-77): a 1 x 1 frame and an output buffer
\* of one byte.
InitCanvas ==
    /\ frame_width = 1
    /\ frame_height = 1
    /\ output_buffer_size = 1
    /\ canvas_output = [kind |-> "none", len |-> 0]

InitServices == InitEngine /\ InitIpc /\ InitStackEmpty /\ InitCanvas

\* Documents for the tree builder: the styles the painter reads are left at
\* their initial values.
Init ==
    /\ InitDocument(MaxNodes)
    /\ node_type \in [1..node_count -> {"element", "doctype"}]
    /\ \A n \in 1..node_count : node_type[n] = "doctype" => LeadingDoctype(n)
    /\ node_tag = [n \in 1..node_count |-> "div"]
    /\ node_background = [n \in 1..node_count |-> "transparent"]
    /\ styled_node = 0
    /\ style_preset = 0
    /\ canvas_size = [width |-> 40, height |-> 30]
    /\ InitBuilder
    /\ InitPainter
    /\ InitServices

Next == build \/ build_layout_tree \/ pop_parent

\* Documents for the whole pipeline: smaller trees, with the styles, tags and
\* text nodes the painter reads.
TopElement(n) ==
    /\ node_parent[n] = 0 /\ node_type[n] = "element"
    /\ \A m \in 1..(n - 1) : ~(node_parent[m] = 0 /\ node_type[m] = "element")

InitPaint ==
    /\ InitDocument(MaxPaintNodes)
    /\ node_type \in [1..node_count -> {"element", "text", "doctype"}]
    /\ \A n \in 1..node_count :
          /\ node_type[n] = "doctype" => LeadingDoctype(n)
          /\ node_type[n] = "text" =>
                /\ node_parent[n] # 0
                /\ node_display[n] = "inline"
                /\ \A m \in 1..node_count : node_parent[m] # n
    \* the document holds one element tree, after at most a doctype
    /\ \A n \in 1..node_count :
          node_parent[n] = 0 => (n = 1 \/ (n = 2 /\ node_type[1] = "doctype"))
    /\ node_tag \in [1..node_count -> {"html", "body", "div"}]
    /\ \A n \in 1..node_count :
          /\ node_tag[n] = "html" => TopElement(n)
          /\ node_tag[n] = "body" =>
                /\ node_type[n] = "element"
                /\ node_parent[n] # 0 /\ node_tag[node_parent[n]] = "html"
                /\ \A m \in 1..(n - 1) : node_tag[m] # "body"
    /\ node_background \in [1..node_count -> {"transparent", "red"}]
    /\ \A n \in 1..node_count : node_tag[n] = "div" => node_background[n] = "red"
    /\ styled_node \in 0..node_count
    /\ style_preset \in 0..5
    /\ (styled_node = 0) = (style_preset = 0)
    /\ canvas_size \in {[width |-> 40, height |-> 30]}
    /\ InitBuilder
    /\ InitPainter
    /\ InitServices

NextPaint == Next \/ layout \/ request_build \/ process

SpecPaint == InitPaint /\ [][NextPaint]_vars

\* Documents of elements and text nodes for the painter fed with line and
\* fragment data of any shape; the border and radius styles are left out.
InitLines ==
    /\ InitDocument(MaxLineNodes)
    /\ root = 1
    /\ node_type \in [1..node_count -> {"element", "text"}]
    /\ \A n \in 1..node_count :
          node_type[n] = "text" =>
              /\ node_parent[n] # 0
              /\ node_display[n] = "inline"
              /\ \A m \in 1..node_count : node_parent[m] # n
    /\ node_tag = [n \in 1..node_count |-> "div"]
    /\ node_background = [n \in 1..node_count |-> "red"]
    /\ styled_node = 0
    /\ style_preset = 0
    /\ canvas_size = [width |-> 40, height |-> 30]
    /\ InitBuilder
    /\ InitPainter
    /\ InitServices

NextLines == Next \/ layout_any \/ request_build \/ process

SpecLines == InitLines /\ [][NextLines]_vars

\* The walk that is left once build_layout_tree was entered for the nodes
\* 2..k: the children of k, its pop, then for each node above k its
\* children after k and its pop.
RECURSIVE remaining_walk(_, _)
remaining_walk(a, k) ==
    SelectSeq(for_each_child(a), LAMBDA c : c > k) \o <<0>>
    \o (IF node_parent[a] = 0 THEN <<>> ELSE remaining_walk(node_parent[a], k))

RECURSIVE path_to(_)
path_to(n) == IF node_parent[n] = 0 THEN <<n>> ELSE path_to(node_parent[n]) \o <<n>>

\* The tree builder in the middle of a walk, at trees in which a block box
\* holds its inline boxes directly (a block box whose children are inline, as
\* the paint stage reads it): the nodes 1..k have their boxes, each below the
\* box of its parent, and no block box made so far mixes block-level and
\* inline-level children or sits below an inline box.
InitInsert ==
    /\ InitDocument(MaxInsertNodes)
    /\ root = 1
    /\ node_type = [n \in 1..node_count |-> "element"]
    /\ node_tag = [n \in 1..node_count |-> "div"]
    /\ node_background = [n \in 1..node_count |-> "transparent"]
    /\ styled_node = 0
    /\ style_preset = 0
    /\ canvas_size = [width |-> 40, height |-> 30]
    /\ \E k \in 1..node_count :
          /\ \A i \in 1..k : node_display[i] # "none"
          /\ node_display[1] = "block"
          /\ \A i \in 2..k :
                /\ node_display[i] = "block" => node_display[node_parent[i]] = "block"
                /\ \A j \in 2..k :
                      node_parent[i] = node_parent[j] => node_display[i] = node_display[j]
          /\ boxes = [i \in 1..k |->
                        [node |-> i,
                         data |-> LayoutBox_new(i).data,
                         children |-> SelectSeq(for_each_child(i), LAMBDA c : c <= k)]]
          /\ parent_stack = path_to(k)
          /\ todo = remaining_walk(k, k)
          /\ visited = [i \in 1..(k - 1) |-> i + 1]
    /\ pc = "building"
    /\ result = "pending"
    /\ InitPainter
    /\ InitServices

NextInsert == build_layout_tree \/ pop_parent

SpecInsert == InitInsert /\ [][NextInsert]_vars

\* Both stages are synchronous calls that run to completion on the calling
\* thread: a step that can be taken is taken.
SpecLinesLive == InitLines /\ [][NextLines]_vars /\ WF_vars(NextLines)

Spec == Init /\ [][Next]_vars

----------------------------------------------------------------------------
(* RenderClient and RenderEngine                                           *)

\* The layout and paint stages at rest.
InitCoreIdle ==
    /\ node_count = 0
    /\ node_parent = <<>>
    /\ node_display = <<>>
    /\ node_type = <<>>
    /\ node_tag = <<>>
    /\ node_background = <<>>
    /\ styled_node = 0
    /\ style_preset = 0
    /\ root = 0
    /\ canvas_size = [width |-> 40, height |-> 30]
    /\ InitBuilder
    /\ InitPainter

InputEvents == {"ViewportResize", "LoadHTML"}

\* The thread spawned by RenderClient::new has not ended: it holds the
\* receiver of the input channel and the sender of the ready channel.
engine_thread_alive == engine_pc \notin {"returned_err", "panicked"}

\* Some receiver of the output channel is alive: the client's own, or a clone
\* handed out by events().
output_open == client_pc = "alive" \/ events_clone

\* Some sender of the input channel is alive: the client's.
input_open == client_pc = "alive"

\* flume::Receiver::recv: a queued message is delivered even when every
\* sender is gone; with an empty queue it fails when every sender is gone and
\* blocks otherwise.
recv_outcome(queue, open) ==
    IF queue # <<>> THEN "message" ELSE IF open THEN "blocked" ELSE "disconnected"

\* RenderEngine::new has completed on the worker thread (render_client.rs line 24).
engine_new ==
    /\ engine_pc = "new"
    /\ engine_pc' = "send_ready"
    /\ UNCHANGED <<core_vars, canvas_vars, ipc_vars, stack_vars, client_pc, client_ready, events_clone, sent, input_queue,
                   output_queue, ready_queue, current, handled, has_bitmap>>

\* ready_tx.send(()).unwrap() (render_client.rs line 26)
engine_send_ready ==
    /\ engine_pc = "send_ready"
    /\ IF client_pc = "alive"
       THEN ready_queue' = 1 /\ engine_pc' = "recv"
       ELSE engine_pc' = "panicked" /\ UNCHANGED ready_queue
    /\ UNCHANGED <<core_vars, canvas_vars, ipc_vars, stack_vars, client_pc, client_ready, events_clone, sent, input_queue,
                   output_queue, current, handled, has_bitmap>>

\* run, line 33, and the page operation of handle_event (lines 43-49); what
\* the page renders is not decided here: it leaves a bitmap or none.
engine_recv ==
    /\ engine_pc = "recv"
    /\ recv_outcome(input_queue, input_open) # "blocked"
    /\ IF recv_outcome(input_queue, input_open) = "message"
       THEN /\ current' = Head(input_queue)
            /\ input_queue' = Tail(input_queue)
            /\ handled' = Append(handled, Head(input_queue))
            /\ has_bitmap' \in BOOLEAN
            /\ engine_pc' = "emit_frame"
       ELSE /\ engine_pc' = "returned_err"
            /\ UNCHANGED <<current, input_queue, handled, has_bitmap>>
    /\ UNCHANGED <<core_vars, canvas_vars, ipc_vars, stack_vars, client_pc, client_ready, events_clone, sent,
                   output_queue, ready_queue>>

\* mutant: every event is followed by a new title
after_emit_frame_title(kind) == "emit_title"

\* handle_event, lines 44-52: what follows emit_new_frame
after_emit_frame(kind) == IF kind = "LoadHTML" THEN "emit_title" ELSE "recv"

\* mutant: a missing bitmap ends the loop
frame_outcome_strict(bitmap, open) == IF bitmap /\ open THEN "sent" ELSE "failed"

\* emit_new_frame, lines 63-66
frame_outcome(bitmap, open) ==
    IF ~bitmap THEN "skipped" ELSE IF open THEN "sent" ELSE "failed"

\* emit_new_frame (lines 62-67), called from handle_event (lines 46, 50)
engine_emit_frame ==
    /\ engine_pc = "emit_frame"
    /\ output_queue' =
          IF frame_outcome(has_bitmap, output_open) = "sent"
          THEN Append(output_queue, [kind |-> "FrameRendered", event |-> current.id])
          ELSE output_queue
    /\ engine_pc' = IF frame_outcome(has_bitmap, output_open) = "failed"
                    THEN "returned_err" ELSE after_emit_frame(current.kind)
    /\ UNCHANGED <<core_vars, canvas_vars, ipc_vars, stack_vars, client_pc, client_ready, events_clone, sent, input_queue,
                   ready_queue, current, handled, has_bitmap>>

\* emit_new_title (lines 57-60), called from handle_event (line 51)
engine_emit_title ==
    /\ engine_pc = "emit_title"
    /\ IF output_open
       THEN /\ output_queue' =
                  Append(output_queue, [kind |-> "TitleChanged", event |-> current.id])
            /\ engine_pc' = "recv"
       ELSE engine_pc' = "returned_err" /\ UNCHANGED output_queue
    /\ UNCHANGED <<core_vars, canvas_vars, ipc_vars, stack_vars, client_pc, client_ready, events_clone, sent, input_queue,
                   ready_queue, current, handled, has_bitmap>>

\* mutant: wait_till_ready returns without a message on the ready channel
client_wait_till_ready_unblocked ==
    /\ client_pc = "alive"
    /\ client_ready' = TRUE
    /\ UNCHANGED <<core_vars, canvas_vars, ipc_vars, stack_vars, client_pc, events_clone, sent, input_queue, output_queue,
                   ready_queue, engine_pc, current, handled, has_bitmap>>

\* RenderClient::wait_till_ready (render_client.rs lines 42-46), on its return
client_wait_till_ready ==
    /\ client_pc = "alive"
    /\ ready_queue = 1
    /\ ready_queue' = 0
    /\ client_ready' = TRUE
    /\ UNCHANGED <<core_vars, canvas_vars, ipc_vars, stack_vars, client_pc, events_clone, sent, input_queue, output_queue,
                   engine_pc, current, handled, has_bitmap>>

\* RenderClient::load_html and RenderClient::resize (render_client.rs lines 52-62)
client_send ==
    /\ client_pc = "alive"
    /\ engine_thread_alive
    /\ Len(sent) < MaxEvents
    /\ \E kind \in InputEvents :
          /\ sent' = Append(sent, [id |-> Len(sent) + 1, kind |-> kind])
          /\ input_queue' = Append(input_queue, [id |-> Len(sent) + 1, kind |-> kind])
    /\ UNCHANGED <<core_vars, canvas_vars, ipc_vars, stack_vars, client_pc, client_ready, events_clone, output_queue,
                   ready_queue, engine_pc, current, handled, has_bitmap>>

\* RenderClient::events (render_client.rs lines 48-50)
client_events ==
    /\ client_pc = "alive"
    /\ ~events_clone
    /\ events_clone' = TRUE
    /\ UNCHANGED <<core_vars, canvas_vars, ipc_vars, stack_vars, client_pc, client_ready, sent, input_queue, output_queue,
                   ready_queue, engine_pc, current, handled, has_bitmap>>

\* The RenderClient value is dropped: its sender and its two receivers go.
client_drop ==
    /\ client_pc = "alive"
    /\ client_pc' = "dropped"
    /\ UNCHANGED <<core_vars, canvas_vars, ipc_vars, stack_vars, client_ready, events_clone, sent, input_queue, output_queue,
                   ready_queue, engine_pc, current, handled, has_bitmap>>

\* The receiver obtained from events() is dropped.
events_drop ==
    /\ events_clone
    /\ events_clone' = FALSE
    /\ UNCHANGED <<core_vars, canvas_vars, ipc_vars, stack_vars, client_pc, client_ready, sent, input_queue, output_queue,
                   ready_queue, engine_pc, current, handled, has_bitmap>>

InitEngineSpec == InitCoreIdle /\ InitServices

NextEngine ==
    \/ engine_new \/ engine_send_ready \/ engine_recv
    \/ engine_emit_frame \/ engine_emit_title
    \/ client_wait_till_ready \/ client_send \/ client_events
    \/ client_drop \/ events_drop

SpecEngine == InitEngineSpec /\ [][NextEngine]_vars

\* The worker thread is scheduled: a step of the engine that can be taken is
\* taken. The client is free to call, or not.
EngineThread ==
    engine_new \/ engine_send_ready \/ engine_recv \/ engine_emit_frame \/ engine_emit_title

SpecEngineLive == SpecEngine /\ WF_vars(EngineThread)

----------------------------------------------------------------------------
(* IpcMain                                                                 *)

Renderers == 1..MaxClients

\* IpcRenderer::new (lib.rs lines 89-102): the connect of one more renderer
\* succeeds.
renderer_connect ==
    /\ connected < MaxClients
    /\ connected' = connected + 1
    /\ UNCHANGED <<core_vars, canvas_vars, engine_vars, stack_vars, clients, clients_lock, acceptor_pc,
                   accepted, inbox, inbox_open, ipc_sent, receive_pc, selected,
                   receive_result, delivered>>

\* A connected renderer sends a message; it reaches the receiver of its
\* client on the main side.
renderer_send(c) ==
    /\ c <= connected
    /\ inbox_open[c]
    /\ ipc_sent[c] < MaxMessages
    /\ ipc_sent' = [ipc_sent EXCEPT ![c] = @ + 1]
    /\ inbox' = [inbox EXCEPT ![c] = Append(@, [from |-> c, n |-> ipc_sent[c] + 1])]
    /\ UNCHANGED <<core_vars, canvas_vars, engine_vars, stack_vars, clients, clients_lock, acceptor_pc,
                   connected, accepted, inbox_open, receive_pc, selected,
                   receive_result, delivered>>

\* The connection of renderer c ends: no sender of its client's receiver is left.
renderer_close(c) ==
    /\ c <= connected
    /\ inbox_open[c]
    /\ inbox_open' = [inbox_open EXCEPT ![c] = FALSE]
    /\ UNCHANGED <<core_vars, canvas_vars, engine_vars, stack_vars, clients, clients_lock, acceptor_pc,
                   connected, accepted, inbox, ipc_sent, receive_pc, selected,
                   receive_result, delivered>>

\* run, lines 45-50: the acceptor takes the next connection and makes its Client.
acceptor_accept ==
    /\ acceptor_pc = "accept"
    /\ accepted < connected
    /\ accepted' = accepted + 1
    /\ acceptor_pc' = "push"
    /\ UNCHANGED <<core_vars, canvas_vars, engine_vars, stack_vars, clients, clients_lock, connected,
                   inbox, inbox_open, ipc_sent, receive_pc, selected, receive_result,
                   delivered>>

\* run, line 52: clients.lock().unwrap().push(client); the guard is a
\* temporary of the statement, so the mutex is taken and released in it.
acceptor_push ==
    /\ acceptor_pc = "push"
    /\ clients_lock = "free"
    /\ clients' = Append(clients, accepted)
    /\ acceptor_pc' = "accept"
    /\ UNCHANGED <<core_vars, canvas_vars, engine_vars, stack_vars, clients_lock, connected, accepted,
                   inbox, inbox_open, ipc_sent, receive_pc, selected, receive_result,
                   delivered>>

\* receive, lines 58-69: the guard taken on line 58 lives until receive
\* returns. Without clients it returns NoConnections at once.
receive_call ==
    /\ receive_pc = "idle"
    /\ clients_lock = "free"
    /\ IF Len(clients) = 0
       THEN /\ receive_result' = [kind |-> "NoConnections"]
            /\ UNCHANGED <<receive_pc, clients_lock>>
       ELSE /\ receive_pc' = "wait"
            /\ clients_lock' = "receive"
            /\ receive_result' = [kind |-> "none"]
    /\ UNCHANGED <<core_vars, canvas_vars, engine_vars, stack_vars, clients, acceptor_pc, connected,
                   accepted, inbox, inbox_open, ipc_sent, selected, delivered>>

\* receive, line 71: selector.wait() returns for the receiver at index
\* (1-based here) with its next message, or with an error when the receiver
\* is empty and disconnected; it blocks while no receiver is ready.
receive_wait(index) ==
    /\ receive_pc = "wait"
    /\ index \in 1..Len(clients)
    /\ recv_outcome(inbox[clients[index]], inbox_open[clients[index]]) # "blocked"
    /\ IF recv_outcome(inbox[clients[index]], inbox_open[clients[index]]) = "message"
       THEN /\ selected' = [index |-> index, ok |-> TRUE,
                            msg |-> Head(inbox[clients[index]])]
            /\ inbox' = [inbox EXCEPT ![clients[index]] = Tail(@)]
       ELSE /\ selected' = [index |-> index, ok |-> FALSE, msg |-> [from |-> 0, n |-> 0]]
            /\ UNCHANGED inbox
    /\ receive_pc' = "selected"
    /\ UNCHANGED <<core_vars, canvas_vars, engine_vars, stack_vars, clients, clients_lock, acceptor_pc,
                   connected, accepted, inbox_open, ipc_sent, receive_result, delivered>>

\* mutant: the sender of the first client is returned
sender_of_first(vec, index) == vec[1]

\* receive, line 74: clients[index].sender()
sender_of(vec, index) == vec[index]

\* receive, lines 72-75: the result, and the guard is dropped.
receive_return ==
    /\ receive_pc = "selected"
    /\ IF ~selected.ok
       THEN receive_result' = [kind |-> "Other"] /\ UNCHANGED delivered
       ELSE /\ receive_result' = [kind |-> "Ok", sender |-> sender_of(clients, selected.index),
                                  msg |-> selected.msg]
            /\ delivered' = delivered \cup {selected.msg}
    /\ receive_pc' = "idle"
    /\ clients_lock' = "free"
    /\ UNCHANGED <<core_vars, canvas_vars, engine_vars, stack_vars, clients, acceptor_pc, connected,
                   accepted, inbox, inbox_open, ipc_sent, selected>>

InitIpcSpec == InitCoreIdle /\ InitServices

NextIpc ==
    \/ renderer_connect
    \/ \E c \in Renderers : renderer_send(c)
    \/ \E c \in Renderers : renderer_close(c)
    \/ acceptor_accept \/ acceptor_push
    \/ receive_call
    \/ \E index \in 1..MaxClients : receive_wait(index)
    \/ receive_return

SpecIpc == InitIpcSpec /\ [][NextIpc]_vars

\* The acceptor is a thread of its own and receive is called again and again:
\* a step of either that can be taken is taken; a mutex that is free again and
\* again is obtained by each thread that asks for it; the selector serves
\* each receiver that is ready again and again. The renderers are free to
\* send, or not.
SpecIpcLive ==
    /\ SpecIpc
    /\ WF_vars(acceptor_accept)
    /\ SF_vars(acceptor_push)
    /\ SF_vars(receive_call)
    /\ \A index \in 1..MaxClients : SF_vars(receive_wait(index))
    /\ WF_vars(receive_return)

----------------------------------------------------------------------------
(* StackOfOpenElements                                                     *)

\* Vec<NodePtr> is indexed from 0 at the bottom of the stack; a sequence
\* here is indexed from 1, so index i of the vector is position i + 1.

ElementTags == {"html", "table", "template", "div", "p"}

\* The stacks an operation is applied to: distinct nodes, any tags.
OpenElementStacks ==
    UNION { { [i \in 1..n |-> [id |-> i, tag |-> tags[i]]] : tags \in [1..n -> ElementTags] } :
            n \in 0..MaxStack }

\* The closures passed as test: on the tag name of the element, or on the
\* node being a given one.
TagTests ==
    { [by |-> "tag", tags |-> S, id |-> 0] : S \in {{"div"}, {"p"}, {"div", "p"}, {"table", "p"}} }

NodeTests == TagTests \cup { [by |-> "node", tags |-> {}, id |-> k] : k \in 1..MaxStack }

test_holds(t, node) == IF t.by = "tag" THEN node.tag \in t.tags ELSE node.id = t.id

\* Vec::pop on a vector that is not empty
vec_popped(vec) == SubSeq(vec, 1, Len(vec) - 1)

\* current_node (lines 34-39) of a vector that is not empty
current_node(vec) == vec[Len(vec)]

\* get (lines 41-43)
get(vec, index) == vec[index + 1]

\* Vec::remove(index): the elements after it shift down
vec_removed(vec, index) ==
    SubSeq(vec, 1, index) \o SubSeq(vec, index + 2, Len(vec))

\* The node that self.0.iter().rev().enumerate() yields with index i.
rev_enumerate(vec, i) == vec[Len(vec) - i]

\* The first index of iter().rev().enumerate() whose node passes, or -1
\* (lines 46-52 and 98-103).
first_passing(vec, test) ==
    IF \E i \in 0..(Len(vec) - 1) : test_holds(test, rev_enumerate(vec, i))
    THEN CHOOSE i \in 0..(Len(vec) - 1) :
            /\ test_holds(test, rev_enumerate(vec, i))
            /\ \A j \in 0..(i - 1) : ~test_holds(test, rev_enumerate(vec, j))
    ELSE -1

\* element.tag_name() == tag_name (lines 48, 58) as a test
has_tag_name(tag_name) == [by |-> "tag", tags |-> {tag_name}, id |-> 0]

\* mutant: the loop stops at the element found and leaves it
popped_until_kept(vec, tag_name) ==
    IF \E i \in 1..Len(vec) : vec[i].tag = tag_name
    THEN SubSeq(vec, 1, CHOOSE i \in 1..Len(vec) :
                           vec[i].tag = tag_name
                           /\ \A j \in (i + 1)..Len(vec) : vec[j].tag # tag_name)
    ELSE <<>>

RECURSIVE popped_until(_, _)
\* the loop of pop_until (lines 56-63)
popped_until(vec, tag_name) ==
    IF vec = <<>> THEN vec
    ELSE IF current_node(vec).tag = tag_name THEN vec_popped(vec)
    ELSE popped_until(vec_popped(vec), tag_name)

RECURSIVE popped_until_match(_, _)
\* the loop of pop_until_match (lines 70-77)
popped_until_match(vec, test) ==
    IF vec = <<>> THEN vec
    ELSE IF test_holds(test, current_node(vec)) THEN vec_popped(vec)
    ELSE popped_until_match(vec_popped(vec), test)

RECURSIVE cleared_back_to_table_context(_)
\* the loop of clear_back_to_table_context (lines 81-91)
cleared_back_to_table_context(vec) ==
    IF vec = <<>> THEN vec
    ELSE IF current_node(vec).tag \in {"table", "template", "html"} THEN vec
    ELSE cleared_back_to_table_context(vec_popped(vec))

\* pop_until (lines 55-64)
pop_until ==
    /\ so_op.name = "none"
    /\ \E tag_name \in ElementTags :
          /\ so_op' = [name |-> "pop_until", tag_name |-> tag_name]
          /\ open_elements' = popped_until(open_elements, tag_name)
    /\ so_before' = open_elements
    /\ UNCHANGED <<core_vars, canvas_vars, engine_vars, ipc_vars, so_result>>

\* pop_until_match (lines 66-78)
pop_until_match ==
    /\ so_op.name = "none"
    /\ \E test \in TagTests :
          /\ so_op' = [name |-> "pop_until_match", test |-> test]
          /\ open_elements' = popped_until_match(open_elements, test)
    /\ so_before' = open_elements
    /\ UNCHANGED <<core_vars, canvas_vars, engine_vars, ipc_vars, so_result>>

\* clear_back_to_table_context (lines 80-92)
clear_back_to_table_context ==
    /\ so_op.name = "none"
    /\ so_op' = [name |-> "clear_back_to_table_context"]
    /\ open_elements' = cleared_back_to_table_context(open_elements)
    /\ so_before' = open_elements
    /\ UNCHANGED <<core_vars, canvas_vars, engine_vars, ipc_vars, so_result>>

\* remove_first_matching (lines 94-104)
remove_first_matching ==
    /\ so_op.name = "none"
    /\ \E test \in NodeTests :
          /\ so_op' = [name |-> "remove_first_matching", test |-> test]
          /\ LET i == first_passing(open_elements, test)
             IN  open_elements' = IF i = -1 THEN open_elements
                                  ELSE vec_removed(open_elements, i)
    /\ so_before' = open_elements
    /\ UNCHANGED <<core_vars, canvas_vars, engine_vars, ipc_vars, so_result>>

\* last_element_with_tag_name (lines 45-53)
last_element_with_tag_name ==
    /\ so_op.name = "none"
    /\ \E tag_name \in ElementTags :
          /\ so_op' = [name |-> "last_element_with_tag_name", tag_name |-> tag_name]
          /\ LET i == first_passing(open_elements, has_tag_name(tag_name))
             IN  so_result' = IF i = -1 THEN [kind |-> "None"]
                              ELSE [kind |-> "Some", node |-> rev_enumerate(open_elements, i),
                                    index |-> i]
    /\ so_before' = open_elements
    /\ UNCHANGED <<core_vars, canvas_vars, engine_vars, ipc_vars, open_elements>>

InitStack ==
    /\ InitCoreIdle
    /\ InitEngine
    /\ InitIpc
    /\ InitCanvas
    /\ open_elements \in OpenElementStacks
    /\ so_before = <<>>
    /\ so_op = [name |-> "none"]
    /\ so_result = [kind |-> "none"]

NextStack ==
    \/ pop_until \/ pop_until_match \/ clear_back_to_table_context
    \/ remove_first_matching \/ last_element_with_tag_name

SpecStack == InitStack /\ [][NextStack]_vars

\* BASE_LIST (lines 9-11)
BASE_LIST ==
    <<"applet", "caption", "html", "table", "td", "th", "marquee", "object", "template">>

\* list.contains (line 120)
contains(list, item) == \E i \in 1..Len(list) : list[i] = item

\* the closure of the filter on line 156
select_filter(item) == item # "option" \/ item # "optgroup"

\* the list built on lines 153-158
select_scope_list == SelectSeq(BASE_LIST, select_filter)

\* mutant: the list is looked at before the target
has_element_name_listed_first(vec, target, list) ==
    LET RECURSIVE walk(_)
        walk(i) ==
            IF i = 0 THEN FALSE
            ELSE IF contains(list, vec[i].tag) THEN FALSE
            ELSE IF vec[i].tag = target THEN TRUE
            ELSE walk(i - 1)
    IN  walk(Len(vec))

\* has_element_name_in_specific_scope (lines 113-125), from the top down
has_element_name_in_specific_scope(vec, target, list) ==
    LET RECURSIVE walk(_)
        walk(i) ==
            IF i = 0 THEN FALSE
            ELSE IF vec[i].tag = target THEN TRUE
            ELSE IF contains(list, vec[i].tag) THEN FALSE
            ELSE walk(i - 1)
    IN  walk(Len(vec))

\* The tag names of the scope checks: scope boundaries, the two names of the
\* filter, and names that are neither.
ScopeTags == {"html", "table", "td", "option", "optgroup", "select", "p"}

ScopeStacks ==
    UNION { { [i \in 1..n |-> [id |-> i, tag |-> tags[i]]] : tags \in [1..n -> ScopeTags] } :
            n \in 0..MaxStack }

\* has_element_name_in_scope (lines 127-129)
has_element_name_in_scope ==
    /\ so_op.name = "none"
    /\ \E target \in ScopeTags :
          /\ so_op' = [name |-> "has_element_name_in_scope", target |-> target]
          /\ so_result' =
                [kind |-> "bool",
                 value |-> has_element_name_in_specific_scope(open_elements, target, BASE_LIST)]
    /\ so_before' = open_elements
    /\ UNCHANGED <<core_vars, canvas_vars, engine_vars, ipc_vars, open_elements>>

\* has_element_name_in_select_scope (lines 152-160)
has_element_name_in_select_scope ==
    /\ so_op.name = "none"
    /\ \E target \in ScopeTags :
          /\ so_op' = [name |-> "has_element_name_in_select_scope", target |-> target]
          /\ so_result' =
                [kind |-> "bool",
                 value |-> has_element_name_in_specific_scope(open_elements, target,
                                                              select_scope_list)]
    /\ so_before' = open_elements
    /\ UNCHANGED <<core_vars, canvas_vars, engine_vars, ipc_vars, open_elements>>

InitScope ==
    /\ InitCoreIdle
    /\ InitEngine
    /\ InitIpc
    /\ InitCanvas
    /\ open_elements \in ScopeStacks
    /\ so_before = <<>>
    /\ so_op = [name |-> "none"]
    /\ so_result = [kind |-> "none"]

NextScope == has_element_name_in_scope \/ has_element_name_in_select_scope

SpecScope == InitScope /\ [][NextScope]_vars

----------------------------------------------------------------------------
(* Canvas                                                                  *)

\* The sizes below keep every product far inside 32 bits, so the u32
\* arithmetic of the source does not wrap.

\* wgpu::COPY_BYTES_PER_ROW_ALIGNMENT
COPY_BYTES_PER_ROW_ALIGNMENT == 256

\* get_bytes_per_row (lines 176-183)
get_bytes_per_row(width) ==
    LET alignment == COPY_BYTES_PER_ROW_ALIGNMENT
        unpadded_bytes_per_row == 4 * width
        padding == alignment - (unpadded_bytes_per_row % alignment)
        bytes_per_row == padding + unpadded_bytes_per_row
    IN  bytes_per_row

\* The loop of output (lines 197-206) over a mapped buffer of size bytes:
\* the number of bytes collected, or -1 when a row slice ends outside the
\* buffer and the indexing panics.
output_len(width, height, size) ==
    LET unpadded_bytes_per_row == 4 * width
        RECURSIVE rows(_, _, _)
        rows(done, row_pointer, len) ==
            IF done = height THEN len
            ELSE IF row_pointer + unpadded_bytes_per_row > size THEN -1
            ELSE rows(done + 1, row_pointer + get_bytes_per_row(width),
                      len + unpadded_bytes_per_row)
    IN  rows(0, 0, 0)

\* resize (lines 97-107)
resize ==
    /\ canvas_output.kind # "panic"
    /\ \E width \in 0..MaxWidth, height \in 0..MaxHeight :
          /\ frame_width' = width
          /\ frame_height' = height
          /\ output_buffer_size' = get_bytes_per_row(width) * height
    /\ canvas_output' = [kind |-> "none", len |-> 0]
    /\ UNCHANGED <<core_vars, engine_vars, ipc_vars, stack_vars>>

\* output (lines 185-211)
output ==
    /\ canvas_output.kind # "panic"
    /\ canvas_output' =
          IF output_len(frame_width, frame_height, output_buffer_size) = -1
          THEN [kind |-> "panic", len |-> 0]
          ELSE [kind |-> "bytes",
                len |-> output_len(frame_width, frame_height, output_buffer_size)]
    /\ UNCHANGED <<core_vars, engine_vars, ipc_vars, stack_vars, frame_width, frame_height,
                   output_buffer_size>>

InitCanvasSpec == InitCoreIdle /\ InitServices

NextCanvas == resize \/ output

SpecCanvas == InitCanvasSpec /\ [][NextCanvas]_vars

----------------------------------------------------------------------------
(* Vocabulary of the properties                                            *)

Boxes == 1..Len(boxes)

\* The box made for node n (0 when there is none) and the box holding b.
box_of(n) ==
    IF \E b \in Boxes : boxes[b].node = n
    THEN CHOOSE b \in Boxes : boxes[b].node = n
    ELSE 0

parent_box(b) ==
    IF \E p \in Boxes : \E i \in 1..Len(boxes[p].children) : boxes[p].children[i] = b
    THEN CHOOSE p \in Boxes : \E i \in 1..Len(boxes[p].children) : boxes[p].children[i] = b
    ELSE 0

child_boxes(b) == { boxes[b].children[i] : i \in 1..Len(boxes[b].children) }

\* The source nodes of the children of box b, in order.
child_nodes(b) == [i \in 1..Len(boxes[b].children) |-> boxes[boxes[b].children[i]].node]

Descendants(n) == { m \in Nodes : n \in Ancestors(m) }

\* The CSS children of p that generate boxes, in document order.
suppressed(n) == node_display[n] = "none"

visible_children(p) ==
    SelectSeq(for_each_child(p), LAMBDA c : ~suppressed(c))

Range(s) == { s[i] : i \in 1..Len(s) }

inline_level(n) == node_display[n] = "inline"
block_level(n) == node_display[n] = "block"

\* The maximal runs of consecutive inline-level nodes of the sequence cs.
RunsOf(cs) ==
    { SubSeq(cs, ij[1], ij[2]) :
        ij \in { ij \in (1..Len(cs)) \X (1..Len(cs)) :
            /\ ij[1] <= ij[2]
            /\ \A k \in ij[1]..ij[2] : inline_level(cs[k])
            /\ (ij[1] = 1 \/ ~inline_level(cs[ij[1] - 1]))
            /\ (ij[2] = Len(cs) \/ ~inline_level(cs[ij[2] + 1])) } }

\* A block-level node below c that is reached from c through inline-level
\* nodes only: its box is attached above c's box, not inside it.
has_block_in_inline(c) ==
    \E d \in Descendants(c) :
        /\ block_level(d)
        /\ \A a \in Ancestors(d) : (a = c \/ a \in Descendants(c)) => inline_level(a)

\* Box b is a block container made for a node whose box-generating children
\* mix block-level and inline-level nodes.
mixed_container(b) ==
    /\ ~is_anonymous(boxes, b)
    /\ ~is_inline(boxes, b)
    /\ \E c \in Nodes : node_parent[c] = boxes[b].node /\ inline_level(c)
    /\ \E c \in Nodes : node_parent[c] = boxes[b].node /\ block_level(c)

\* The children of b are block-level, and each maximal inline run of the
\* node's children sits, whole and in order, in one anonymous block of its own.
wrapped_as_runs(b) ==
    LET runs == RunsOf(visible_children(boxes[b].node))
        anonymous == { a \in child_boxes(b) : is_anonymous(boxes, a) }
    IN /\ \A c \in child_boxes(b) : ~is_inline(boxes, c)
       /\ \A r \in runs : Cardinality({ a \in anonymous : child_nodes(a) = r }) = 1
       /\ Cardinality(anonymous) = Cardinality(runs)

no_block_in_inline_child(b) ==
    \A c \in Nodes :
        (node_parent[c] = boxes[b].node /\ inline_level(c)) => ~has_block_in_inline(c)

\* C1 as stated: after build, in every block container whose box-generating
\* CSS children mix block-level and inline-level nodes, the direct children
\* are all block-level and every maximal run of inline-level CSS children is
\* wrapped, whole and in order, by exactly one anonymous block.
C1_EveryRunWrappedOnce ==
    result = "Some" =>
        \A b \in Boxes : mixed_container(b) => wrapped_as_runs(b)

\* C1 amended: the same, for the containers none of whose inline-level
\* children holds a block-level node reached through inline-level nodes only.
C1_RunsWrappedWithoutBlockInInline ==
    result = "Some" =>
        \A b \in Boxes :
            (mixed_container(b) /\ no_block_in_inline_child(b)) => wrapped_as_runs(b)

C1_Witness ==
    /\ result = "Some"
    /\ \E b \in Boxes :
          /\ mixed_container(b)
          /\ no_block_in_inline_child(b)
          /\ Cardinality(RunsOf(visible_children(boxes[b].node))) = 2
          /\ \E r \in RunsOf(visible_children(boxes[b].node)) : Len(r) = 2
          /\ wrapped_as_runs(b)

\* C2: at every step of the build, no block box (anonymous ones included)
\* has a block-level child and an inline-level child at the same time.
C2_ChildrenNeverMixed ==
    \A b \in Boxes :
        is_block(boxes, b) =>
            ~( /\ \E c \in child_boxes(b) : is_inline(boxes, c)
               /\ \E c \in child_boxes(b) : ~is_inline(boxes, c) )

C2_Witness ==
    /\ pc = "building"
    /\ \E b \in Boxes :
          /\ is_block(boxes, b)
          /\ \E c \in child_boxes(b) : is_anonymous(boxes, c) /\ Len(boxes[c].children) >= 2
          /\ \E c \in child_boxes(b) : ~is_anonymous(boxes, c)

\* C3: a node with display none, and every node below it, is the source of
\* no box; the nodes below it are never visited nor scheduled for a visit.
C3_DisplayNoneExcluded ==
    \A n \in Nodes :
        suppressed(n) =>
            /\ box_of(n) = 0
            /\ \A d \in Descendants(n) :
                  /\ box_of(d) = 0
                  /\ d \notin Range(visited)
                  /\ d \notin Range(todo)

C3_Witness ==
    /\ result = "Some"
    /\ \E n \in Nodes :
          /\ suppressed(n)
          /\ n \in Range(visited)
          /\ \E d \in Descendants(n) : ~suppressed(d)

\* The box tree below b as a value: <<source node, kind, subtrees>>.
RECURSIVE TreeOf(_)
TreeOf(b) ==
    <<boxes[b].node, boxes[b].data,
      [i \in 1..Len(boxes[b].children) |-> TreeOf(boxes[b].children[i])]>>

\* <div><span/><p><span/><span/></p></div>, div and p block, span inline
ScenarioDocument ==
    /\ node_count = 5
    /\ node_parent = <<0, 1, 1, 3, 3>>
    /\ node_display = <<"block", "inline", "block", "inline", "inline">>

ScenarioTree ==
    <<1, "block",
      << <<0, "block", << <<2, "inline", <<>>>> >>>>,
         <<3, "block",
           << <<0, "block", << <<4, "inline", <<>>>>, <<5, "inline", <<>>>> >>>> >>>> >>>>

consecutive_inline_siblings(c1, c2) ==
    /\ node_parent[c1] = node_parent[c2]
    /\ inline_level(c1) /\ inline_level(c2)
    /\ \E i \in 1..(Len(visible_children(node_parent[c1])) - 1) :
          /\ visible_children(node_parent[c1])[i] = c1
          /\ visible_children(node_parent[c1])[i + 1] = c2
    /\ box_of(c1) # 0 /\ box_of(c2) # 0

same_anonymous_block(c1, c2) ==
    /\ parent_box(box_of(c1)) = parent_box(box_of(c2))
    /\ parent_box(box_of(c1)) # 0
    /\ is_anonymous(boxes, parent_box(box_of(c1)))

first_child_of_document ==
    IF \E n \in Nodes : node_parent[n] = 0
    THEN CHOOSE n \in Nodes : node_parent[n] = 0 /\ \A m \in Nodes : node_parent[m] = 0 => n <= m
    ELSE 0

first_element_child_of_document ==
    IF \E n \in Nodes : node_parent[n] = 0 /\ node_type[n] = "element"
    THEN CHOOSE n \in Nodes :
            /\ node_parent[n] = 0 /\ node_type[n] = "element"
            /\ \A m \in Nodes : (node_parent[m] = 0 /\ node_type[m] = "element") => n <= m
    ELSE 0

effective_root == IF root = 0 THEN first_child_of_document ELSE root

\* C6: build ends without a panic; it returns None exactly when there is no
\* effective root or the effective root has display none, and otherwise
\* Some(root box) whose source node is the effective root.
C6_NoneExactlyWithoutVisitableRoot ==
    pc = "done" =>
        IF effective_root = 0 \/ suppressed(effective_root)
        THEN result = "None"
        ELSE result = "Some" /\ boxes[1].node = effective_root

\* C7: built from a document node, the root box is made for the document's
\* first element child, whatever precedes it among the document's children.
C7_RootIsFirstElementChild ==
    (root = 0 /\ pc = "done" /\ first_element_child_of_document # 0) =>
        /\ result # "None" => boxes[1].node = first_element_child_of_document
        /\ result = "None" => suppressed(first_element_child_of_document)

----------------------------------------------------------------------------
(* Properties of the paint request                                         *)

\* The boxes of the tree below b (b included) in pre-order.
RECURSIVE PreOrder(_)
RECURSIVE PreOrderAll(_)
PreOrder(b) == <<b>> \o PreOrderAll(boxes[b].children)
PreOrderAll(bs) == IF bs = <<>> THEN <<>> ELSE PreOrder(Head(bs)) \o PreOrderAll(Tail(bs))

\* The layout boxes the paint boxes were made for, in the order of emission.
painted_boxes == [i \in 1..Len(paint_boxes) |-> paint_boxes[i].layout_box]

is_delegating_root(b) ==
    /\ boxes[b].node # 0
    /\ node_tag[boxes[b].node] = "html"
    /\ node_background[boxes[b].node] = "transparent"

\* C8 as stated: the boxes of the paint request are the non-anonymous boxes
\* of the layout tree in pre-order, each exactly once.
C8_BoxesArePreOrderOfNonAnonymous ==
    pc = "painted" =>
        painted_boxes = SelectSeq(PreOrder(1), LAMBDA b : boxes[b].node # 0)

\* C8 amended: the same, leaving out a root element whose background is
\* transparent (it delegates its background to the body and emits no box).
C8_BoxesArePreOrderExceptDelegatingRoot ==
    pc = "painted" =>
        painted_boxes =
            SelectSeq(PreOrder(1), LAMBDA b : boxes[b].node # 0 /\ ~is_delegating_root(b))

C8_Witness ==
    /\ pc = "painted"
    /\ Len(paint_boxes) >= 2
    /\ \E b \in Boxes : boxes[b].node = 0
    /\ \E b \in Boxes : is_delegating_root(b)
    /\ \E i \in 1..Len(paint_boxes) : parent_box(paint_boxes[i].layout_box) \notin {0, 1}

canvas_rect ==
    [x |-> 0, y |-> 0, width |-> canvas_size.width, height |-> canvas_size.height]

paint_boxes_of(b) == { i \in 1..Len(paint_boxes) : paint_boxes[i].layout_box = b }

\* C9: a root element with a transparent background emits no paint box and
\* the body's paint box covers the canvas; a root element with another
\* background emits its paint box at its own rectangle and the body's paint
\* box keeps the body's own rectangle.
C9_RootBodyDelegation ==
    pc = "painted" =>
        \A r \in Boxes :
            (boxes[r].node # 0 /\ node_tag[boxes[r].node] = "html") =>
                IF node_background[boxes[r].node] = "transparent"
                THEN /\ paint_boxes_of(r) = {}
                     /\ \A b \in Boxes :
                           (boxes[b].node # 0 /\ node_tag[boxes[b].node] = "body") =>
                               /\ Cardinality(paint_boxes_of(b)) = 1
                               /\ \A i \in paint_boxes_of(b) :
                                     paint_boxes[i].rect.rect = canvas_rect
                ELSE /\ Cardinality(paint_boxes_of(r)) = 1
                     /\ \A i \in paint_boxes_of(r) :
                           paint_boxes[i].rect.rect = padding_box_absolute(r)
                     /\ \A b \in Boxes :
                           (boxes[b].node # 0 /\ node_tag[boxes[b].node] = "body") =>
                               /\ Cardinality(paint_boxes_of(b)) = 1
                               /\ \A i \in paint_boxes_of(b) :
                                     paint_boxes[i].rect.rect = padding_box_absolute(b)

C9_Witness ==
    /\ pc = "painted"
    /\ \E r, b \in Boxes :
          /\ is_delegating_root(r)
          /\ boxes[b].node # 0 /\ node_tag[boxes[b].node] = "body"
          /\ padding_box_absolute(b) # canvas_rect
          /\ \E i \in paint_boxes_of(b) : paint_boxes[i].rect.rect = canvas_rect

all_radii_zero(n) == \A k \in 1..4 : get_style_radius(n, k) = <<0, 0>>

\* C10: a paint box is a plain Rect exactly when the four corner radii of its
\* node are zero, and an RRect when at least one of them is not; the
\* background command of paint_background makes the same choice.
C10_RoundedExactlyWhenSomeRadius ==
    /\ \A i \in 1..Len(paint_boxes) :
          paint_boxes[i].rect.tag =
              IF all_radii_zero(boxes[paint_boxes[i].layout_box].node)
              THEN "Rect" ELSE "RRect"
    /\ pc = "painted" =>
          \A b \in Boxes :
              boxes[b].node # 0 =>
                  paint_background(b).value.command =
                      IF all_radii_zero(boxes[b].node) THEN "FillRect" ELSE "FillRRect"

C10_Witness ==
    /\ pc = "painted"
    /\ style_preset \in 1..4
    /\ \E i \in 1..Len(paint_boxes) : paint_boxes[i].rect.tag = "RRect"
    /\ \E i \in 1..Len(paint_boxes) : paint_boxes[i].rect.tag = "Rect"

----------------------------------------------------------------------------
(* Properties of the traversal of lines and fragments                      *)

\* The fragments of the lines of box b, in line order.
fragments_of_lines(b) == fragments_in_order(lines[b])

\* The rectangle of a fragment of containing block b: the fragment's size at
\* the block's absolute location plus the fragment's offset.
fragment_rect(b, fragment) ==
    [x |-> absolute_location(b).x + fragment.offset.x,
     y |-> absolute_location(b).y + fragment.offset.y,
     width |-> fragment.size.width, height |-> fragment.size.height]

inline_container(b) ==
    boxes[b].data = "block" /\ \E c \in child_boxes(b) : boxes[c].data = "inline"

\* C11: no paint box is made for an anonymous box; once the request is
\* built, every non-anonymous box below an anonymous box has its paint box,
\* and every text fragment of the lines of an anonymous block with inline
\* children has its paint text.
C11_AnonymousSkippedButTraversed ==
    /\ \A i \in 1..Len(paint_boxes) : boxes[paint_boxes[i].layout_box].node # 0
    /\ pc = "painted" =>
          \A a \in Boxes :
              boxes[a].node = 0 =>
                  /\ \A d \in Range(boxes_below(a)) :
                        boxes[d].node # 0 => paint_boxes_of(d) # {}
                  /\ inline_container(a) =>
                        \A k \in 1..Len(fragments_of_lines(a)) :
                            fragments_of_lines(a)[k].data = "Text" =>
                                \E t \in 1..Len(paint_texts) :
                                    /\ paint_texts[t].layout_box =
                                           fragments_of_lines(a)[k].layout_box
                                    /\ paint_texts[t].rect =
                                           fragment_rect(a, fragments_of_lines(a)[k])

C11_Witness ==
    /\ pc = "painted"
    /\ \E a \in Boxes :
          /\ boxes[a].node = 0
          /\ inline_container(a)
          /\ \E d \in Range(boxes_below(a)) : boxes[d].node # 0 /\ boxes[d].children # <<>>
          /\ \E k \in 1..Len(fragments_of_lines(a)) : fragments_of_lines(a)[k].data = "Text"
          /\ \A d \in Range(boxes_below(a)) : boxes[d].node # 0 => paint_boxes_of(d) # {}
    /\ paint_texts # <<>>

\* The element fragments of the lines of b that refer to a non-anonymous box.
element_fragments(b) ==
    SelectSeq(fragments_of_lines(b),
              LAMBDA f : f.data = "Box" /\ boxes[f.layout_box].node # 0)

\* C12: once the request is built, every element fragment of the lines of a
\* block box with inline children that refers to a non-anonymous box has a
\* paint box of its own in the boxes of the request: one made for the
\* fragment's box, with the fragment's size, at the containing block's
\* absolute location plus the fragment's offset.
C12_ElementFragmentsPainted ==
    pc = "painted" =>
        \A b \in Boxes :
            inline_container(b) =>
                \A k \in 1..Len(element_fragments(b)) :
                    \E i \in 1..Len(paint_boxes) :
                        /\ paint_boxes[i].layout_box = element_fragments(b)[k].layout_box
                        /\ paint_boxes[i].rect.rect = fragment_rect(b, element_fragments(b)[k])

\* C13: process is never called on a child of a block box with inline
\* children (the content of such a box is painted from its lines only), and
\* so no paint box of the request was made by a call of process on one.
C13_InlineChildrenNotRecursed ==
    /\ \A k \in 1..Len(paint_todo) :
          parent_box(paint_todo[k]) # 0 => ~inline_container(parent_box(paint_todo[k]))
    /\ \A i \in 1..Len(paint_boxes) :
          (/\ parent_box(paint_boxes[i].layout_box) # 0
           /\ inline_container(parent_box(paint_boxes[i].layout_box)))
              => paint_boxes[i].rect.rect # padding_box_absolute(paint_boxes[i].layout_box)

\* The text fragments of the lines of the blocks bs, block after block, each
\* with the rectangle its paint text is to have.
RECURSIVE text_fragments_of(_)
text_fragments_of(bs) ==
    IF bs = <<>> THEN <<>>
    ELSE LET b == Head(bs)
             texts == SelectSeq(fragments_of_lines(b), LAMBDA f : f.data = "Text")
         IN [k \in 1..Len(texts) |->
                [layout_box |-> texts[k].layout_box,
                 content |-> texts[k].content,
                 rect |-> fragment_rect(b, texts[k])]]
            \o text_fragments_of(Tail(bs))

\* The text fragments of the whole tree: containing blocks in pre-order,
\* lines in order, fragments in order within a line.
expected_texts ==
    text_fragments_of(SelectSeq(PreOrder(1), LAMBDA b : inline_container(b)))

emitted_texts ==
    [i \in 1..Len(paint_texts) |->
        [layout_box |-> paint_texts[i].layout_box,
         content |-> paint_texts[i].content,
         rect |-> paint_texts[i].rect]]

\* C14: while the request is built the texts are a prefix of, and once it is
\* built they are exactly, the text fragments of the blocks with inline
\* children (blocks in pre-order, lines in order, fragments in order), one
\* paint text per fragment, each with the fragment's size at the containing
\* block's absolute location plus the fragment's offset.
C14_TextsFollowFragments ==
    /\ pc = "painting" =>
          /\ Len(emitted_texts) <= Len(expected_texts)
          /\ emitted_texts = SubSeq(expected_texts, 1, Len(emitted_texts))
    /\ pc = "painted" => emitted_texts = expected_texts

C14_Witness ==
    /\ pc = "painted"
    /\ layout_variant = 2
    /\ Len(paint_texts) >= 2
    /\ \E b1, b2 \in Boxes :
          /\ b1 # b2
          /\ inline_container(b1) /\ inline_container(b2)
          /\ boxes[parent_box(b1)].node # 0 /\ parent_box(parent_box(b1)) # 0
          /\ \E t1, t2 \in 1..Len(paint_texts) :
                /\ t1 < t2
                /\ parent_box(paint_texts[t1].layout_box) = b1
                /\ parent_box(paint_texts[t2].layout_box) = b2

\* C15: whatever the layout tree and the line and fragment data, build never
\* looks up the styled node of an anonymous box: the unwrap of an absent
\* node is never reached.
C15_NoLookupOnAnonymousBox == pc # "paint_panic"

----------------------------------------------------------------------------
(* Properties of the borders                                               *)

\* The resolved style value of edge k of node n.
edge_value(n, k) == get_style_border_style(n, k)

edge_is_drawn(n, k) ==
    edge_value(n, k).kind = "BorderStyle" /\ edge_value(n, k).style # "none"

\* C16: in every paint box each of the four edges is absent exactly when its
\* own resolved border style is none or is not a border-style value, and
\* otherwise carries its own style with its own resolved color, whatever
\* the other three edges are.
C16_EdgesResolvedIndependently ==
    \A i \in 1..Len(paint_boxes) :
        \A k \in 1..4 :
            LET n == boxes[paint_boxes[i].layout_box].node
                border == paint_boxes[i].borders[Edges[k]]
            IN IF edge_is_drawn(n, k)
               THEN /\ border.some
                    /\ border.value.style = edge_value(n, k).style
                    /\ border.value.color =
                           [node |-> n, property |-> <<"BorderColor", Edges[k]>>]
               ELSE ~border.some

C16_Witness ==
    /\ pc = "painted"
    /\ style_preset = 5
    /\ \E i \in 1..Len(paint_boxes) :
          /\ boxes[paint_boxes[i].layout_box].node = styled_node
          /\ paint_boxes[i].borders.top.some
          /\ paint_boxes[i].borders.top.value.style = "dotted"
          /\ ~paint_boxes[i].borders.right.some
          /\ paint_boxes[i].borders.bottom.some
          /\ paint_boxes[i].borders.bottom.value.style = "solid"
          /\ ~paint_boxes[i].borders.left.some
    /\ \E i \in 1..Len(paint_boxes) :
          boxes[paint_boxes[i].layout_box].node # styled_node

----------------------------------------------------------------------------
(* Properties of the order of the boxes                                    *)

\* The source nodes of the non-anonymous boxes of the tree, in pre-order.
nodes_in_box_order ==
    LET bs == SelectSeq(PreOrder(1), LAMBDA b : boxes[b].node # 0)
    IN [i \in 1..Len(bs) |-> boxes[bs[i]].node]

\* The source nodes of the paint boxes, in the order of emission.
nodes_in_paint_order ==
    [i \in 1..Len(paint_boxes) |-> boxes[paint_boxes[i].layout_box].node]

\* Nodes are numbered in document order.
in_document_order(ns) ==
    \A i, j \in 1..Len(ns) : i < j => ns[i] < ns[j]

\* C17: the non-anonymous boxes of the tree that build returns, taken in
\* pre-order, and the paint boxes made from them, list their source nodes
\* in document order.
C17_PaintOrderIsDocumentOrder ==
    /\ result = "Some" => in_document_order(nodes_in_box_order)
    /\ in_document_order(nodes_in_paint_order)

\* C18: the block insertion rule always finds a block-level entry on the
\* parent stack, whatever the display of the root: build never aborts with
\* "No parent in stack".
C18_BlockParentAlwaysFound == result # "panic"

----------------------------------------------------------------------------
(* Properties of the shape of the box tree                                 *)

\* The places (parent, index) where box b sits in a children list.
places_of(b) ==
    { pi \in Boxes \X (1..Len(boxes)) :
        pi[2] <= Len(boxes[pi[1]].children) /\ boxes[pi[1]].children[pi[2]] = b }

\* The boxes above b, following the children lists upwards.
RECURSIVE boxes_above(_, _)
boxes_above(b, fuel) ==
    IF fuel = 0 \/ parent_box(b) = 0 THEN {}
    ELSE {parent_box(b)} \cup boxes_above(parent_box(b), fuel - 1)

wraps_inline_run(a) ==
    /\ boxes[a].data = "block"
    /\ boxes[a].children # <<>>
    /\ \A c \in child_boxes(a) : boxes[c].data = "inline"

\* Box b was made by this step for a block-level node and appended to a
\* box that had no child before the step.
block_inserted_into_empty(b) ==
    /\ b \in (1..Len(boxes')) \ Boxes
    /\ boxes'[b].node # 0 /\ boxes'[b].data = "block"
    /\ \E p \in Boxes :
          /\ boxes[p].children = <<>>
          /\ \E i \in 1..Len(boxes'[p].children) : boxes'[p].children[i] = b

\* C20: every anonymous block of the tree, during the build and in the tree
\* that build returns, has no source node, at least one child and only
\* inline-level children; the insertion of a block box into a box without
\* children makes no anonymous block.
C20_AnonymousBlocksWrapInlineRuns ==
    /\ [](\A a \in Boxes : boxes[a].node = 0 => wraps_inline_run(a))
    /\ [][\A b \in 1..Len(boxes') :
             block_inserted_into_empty(b) =>
                 \A a \in (1..Len(boxes')) \ Boxes : boxes'[a].node # 0]_vars

C20_Witness ==
    /\ result = "Some"
    /\ Cardinality({ a \in Boxes : boxes[a].node = 0 }) >= 2
    /\ \E b \in Boxes :
          /\ boxes[b].node # 0 /\ boxes[b].data = "block"
          /\ Len(boxes[b].children) >= 2
          /\ boxes[boxes[b].children[1]].node # 0
          /\ boxes[boxes[b].children[1]].data = "block"
          /\ boxes[boxes[b].children[2]].node = 0
    /\ \A a \in Boxes : boxes[a].node = 0 => wraps_inline_run(a)

----------------------------------------------------------------------------
(* Properties of the parent stack                                          *)

\* The ancestors of node n from the root box's node down to n's parent.
RECURSIVE ancestors_down_to(_)
ancestors_down_to(n) ==
    IF n = 0 \/ n = boxes[1].node THEN <<>>
    ELSE IF node_parent[n] = 0 THEN <<>>
    ELSE ancestors_down_to(node_parent[n]) \o <<node_parent[n]>>

stack_nodes == [i \in 1..Len(parent_stack) |-> boxes[parent_stack[i]].node]

\* C23: whenever build_layout_tree is entered for a node, the parent stack
\* holds the boxes of the node's document ancestors, from the root box's node
\* down to the node's parent on top; the stack never holds an anonymous box,
\* is not empty while the children of the root are walked, and is empty
\* again when build returns.
C23_ParentStackDiscipline ==
    /\ \A i \in 1..Len(parent_stack) : boxes[parent_stack[i]].node # 0
    /\ (pc = "building" /\ todo # <<>> /\ Head(todo) > 0) =>
          /\ parent_stack # <<>>
          /\ stack_nodes = ancestors_down_to(Head(todo))
          /\ stack_nodes[Len(stack_nodes)] = node_parent[Head(todo)]
    /\ pc = "building" => parent_stack # <<>> /\ parent_stack[1] = 1
    /\ (pc = "done" /\ result \in {"Some", "None"}) => parent_stack = <<>>

C23_Witness ==
    /\ pc = "building"
    /\ todo # <<>> /\ Head(todo) > 0
    /\ Len(parent_stack) >= 3
    /\ stack_nodes = ancestors_down_to(Head(todo))
    /\ \E b \in Boxes : boxes[b].node = 0
    /\ \E n \in Nodes : n < Head(todo) /\ box_of(n) # 0 /\ box_of(n) \notin Range(parent_stack)

----------------------------------------------------------------------------
(* Termination                                                             *)

no_repeats(seq) == \A i, j \in 1..Len(seq) : i # j => seq[i] # seq[j]

\* TreeBuilder::build came to an end without a tree to paint: it returned
\* None or aborted.
build_ended_without_tree == pc = "done" /\ result # "Some"

\* RequestBuilder::build came to an end: it returned the request or aborted.
request_ended == pc \in {"painted", "paint_panic"}

----------------------------------------------------------------------------
(* Properties of the block insertion                                       *)

\* The nearest entry of the parent stack that is not an inline box, 0 when
\* there is none.
nearest_non_inline ==
    LET found == { i \in 1..Len(parent_stack) : boxes[parent_stack[i]].data # "inline" }
    IN IF found = {} THEN 0
       ELSE parent_stack[CHOOSE i \in found : \A j \in found : j <= i]

\* C22: a step that inserts a block box attaches it to the nearest entry of
\* the parent stack that is not inline; when that box has children
\* classified inline, its children become <<A, new block>> with A a new
\* anonymous block holding the former children in their former order, and
\* otherwise the new block is appended to its children; no other box of the
\* tree changes.
C22_BlockInsertionFrame ==
    [][ (/\ pc = "building" /\ todo # <<>> /\ Head(todo) > 0
         /\ node_display[Head(todo)] = "block"
         /\ nearest_non_inline # 0)
        =>
        LET parent == nearest_non_inline
            new == Len(boxes) + 1
        IN /\ boxes'[new] = [node |-> Head(todo), data |-> "block", children |-> <<>>]
           /\ IF \E c \in child_boxes(parent) : boxes[c].data = "inline"
              THEN /\ Len(boxes') = Len(boxes) + 2
                   /\ boxes'[parent].children = <<new + 1, new>>
                   /\ boxes'[new + 1] = [node |-> 0, data |-> "block",
                                          children |-> boxes[parent].children]
              ELSE /\ Len(boxes') = Len(boxes) + 1
                   /\ boxes'[parent].children = Append(boxes[parent].children, new)
           /\ \A b \in Boxes \ {parent} : boxes'[b] = boxes[b] ]_vars

\* A block box was inserted after two inline boxes that its parent held
\* directly, below an inline box on the stack or not.
C22_Witness ==
    \E parent \in Boxes :
        /\ Len(boxes[parent].children) = 2
        /\ LET a == boxes[parent].children[1]
               new == boxes[parent].children[2]
           IN /\ a = new + 1
              /\ boxes[a].node = 0
              /\ Len(boxes[a].children) >= 2
              /\ \A c \in child_boxes(a) : boxes[c].data = "inline" /\ c < new
              /\ boxes[new].node # 0 /\ boxes[new].data = "block"

----------------------------------------------------------------------------
(* Properties of the render engine and its client                          *)

\* The kinds of the output events emitted for input event e, in order.
kinds_of(e) ==
    LET sel == SelectSeq(output_queue, LAMBDA o : o.event = e)
    IN  [i \in 1..Len(sel) |-> sel[i].kind]

\* handle_event has returned Ok for input event e.
event_done(e) == e < current.id \/ (e = current.id /\ engine_pc = "recv")

\* C24: input events are handled one at a time in the order sent; the
\* outputs of an event all precede the outputs of the next one; a LoadHTML
\* gives FrameRendered (only with a bitmap) and then TitleChanged; a
\* ViewportResize gives at most one FrameRendered and no TitleChanged.
C24_EventsHandledInOrder ==
    /\ [](/\ Len(handled) <= Len(sent)
          /\ \A i \in 1..Len(handled) : handled[i] = sent[i]
          /\ \A i, j \in 1..Len(output_queue) :
                i < j => output_queue[i].event <= output_queue[j].event
          /\ \A i \in 1..Len(handled) :
                IF handled[i].kind = "LoadHTML"
                THEN /\ kinds_of(handled[i].id) \in
                          {<<>>, <<"FrameRendered">>, <<"TitleChanged">>,
                           <<"FrameRendered", "TitleChanged">>}
                     /\ event_done(handled[i].id) =>
                          kinds_of(handled[i].id) \in
                              {<<"TitleChanged">>, <<"FrameRendered", "TitleChanged">>}
                ELSE kinds_of(handled[i].id) \in {<<>>, <<"FrameRendered">>})
    /\ [][output_queue' # output_queue =>
             /\ Len(output_queue') = Len(output_queue) + 1
             /\ SubSeq(output_queue', 1, Len(output_queue)) = output_queue
             /\ output_queue'[Len(output_queue')].event = current.id
             /\ output_queue'[Len(output_queue')].kind = "FrameRendered" => has_bitmap]_vars

C24_Witness ==
    /\ Len(handled) = 3
    /\ handled[1].kind = "LoadHTML" /\ handled[2].kind = "ViewportResize"
    /\ handled[3].kind = "LoadHTML"
    /\ kinds_of(1) = <<"FrameRendered", "TitleChanged">>
    /\ kinds_of(2) = <<"FrameRendered">>
    /\ kinds_of(3) = <<"TitleChanged">>
    /\ engine_pc = "recv"

\* A step of the engine loop: run receives, or handle_event emits.
engine_step == engine_pc' # engine_pc /\ engine_pc \in {"recv", "emit_frame", "emit_title"}

\* C25 as stated: the loop returns Err on the first receive from an input
\* channel that has no sender left.
C25_ErrOnFirstReceiveWithoutSenders ==
    [][(engine_pc = "recv" /\ ~input_open /\ engine_step) =>
           engine_pc' = "returned_err"]_vars

\* C25: the loop stops only on a channel failure: it returns Err on the first
\* receive that finds the input channel empty with no sender left, or on the
\* first failed send to the output channel; it handles no input event after
\* that; a missing bitmap sends no FrameRendered and the loop goes on.
C25_LoopStopsOnlyOnChannelFailure ==
    /\ [][engine_step =>
             (engine_pc' = "returned_err" <=>
                \/ engine_pc = "recv" /\ input_queue = <<>> /\ ~input_open
                \/ engine_pc = "emit_frame" /\ has_bitmap /\ ~output_open
                \/ engine_pc = "emit_title" /\ ~output_open)]_vars
    /\ [][engine_pc = "returned_err" =>
             /\ engine_pc' = "returned_err"
             /\ handled' = handled
             /\ output_queue' = output_queue]_vars
    /\ [][(engine_pc = "emit_frame" /\ ~has_bitmap /\ engine_step) =>
             /\ output_queue' = output_queue
             /\ engine_pc' \in {"recv", "emit_title"}]_vars

C25_Witness ==
    /\ engine_pc = "returned_err"
    /\ Len(handled) = 2
    /\ handled[1].kind = "ViewportResize"
    /\ kinds_of(1) = <<>>
    /\ kinds_of(2) = <<"FrameRendered">>
    /\ input_queue # <<>>

\* C26: wait_till_ready returns only after the engine was constructed on the
\* worker thread; no command sent on the client is lost: what was sent is
\* what was handled followed by what is queued, in the order sent, and while
\* the engine thread is alive every command sent gets handled.
C26_ReadyAfterConstructionNoCommandLost ==
    /\ [](client_ready => engine_pc \notin {"new", "send_ready"})
    /\ [](sent = handled \o input_queue)
    /\ \A k \in 1..MaxEvents :
          [](Len(sent) >= k => <>(Len(handled) >= k \/ ~engine_thread_alive))

C26_Witness ==
    /\ client_ready
    /\ Len(handled) = 3
    /\ engine_thread_alive
    /\ handled[1].kind = "LoadHTML" /\ handled[2].kind = "ViewportResize"

----------------------------------------------------------------------------
(* Properties of IpcMain                                                   *)

C28_LateClientIsServed ==
    /\ \A c \in Renderers :
          [](connected >= c => <>(\E i \in 1..Len(clients) : clients[i] = c))
    /\ \A c \in Renderers : \A n \in 1..MaxMessages :
          [](ipc_sent[c] >= n => <>([from |-> c, n |-> n] \in delivered))

----------------------------------------------------------------------------
(* Properties of StackOfOpenElements                                       *)

\* The prefix of vec below its topmost element that passes; empty when no
\* element passes.
below_topmost(vec, test) ==
    IF \E i \in 1..Len(vec) : test_holds(test, vec[i])
    THEN LET top == CHOOSE i \in 1..Len(vec) :
                       /\ test_holds(test, vec[i])
                       /\ \A j \in (i + 1)..Len(vec) : ~test_holds(test, vec[j])
         IN  SubSeq(vec, 1, top - 1)
    ELSE <<>>

\* vec without its topmost element that passes; vec when no element passes.
without_topmost(vec, test) ==
    IF \E i \in 1..Len(vec) : test_holds(test, vec[i])
    THEN LET top == CHOOSE i \in 1..Len(vec) :
                       /\ test_holds(test, vec[i])
                       /\ \A j \in (i + 1)..Len(vec) : ~test_holds(test, vec[j])
         IN  SubSeq(vec, 1, top - 1) \o SubSeq(vec, top + 1, Len(vec))
    ELSE vec

is_table_context(node) == node.tag \in {"table", "template", "html"}

\* C29: pop_until(tag) leaves exactly the elements below the topmost element
\* with that tag name, and nothing when there is none; pop_until_match does
\* the same for a predicate; clear_back_to_table_context pops until the top
\* is table, template or html and leaves that element.
C29_PopUntilLeavesPrefixBelowMatch ==
    /\ so_op.name = "pop_until" =>
          open_elements = below_topmost(so_before, has_tag_name(so_op.tag_name))
    /\ so_op.name = "pop_until_match" =>
          open_elements = below_topmost(so_before, so_op.test)
    /\ so_op.name = "clear_back_to_table_context" =>
          /\ Len(open_elements) <= Len(so_before)
          /\ open_elements = SubSeq(so_before, 1, Len(open_elements))
          /\ open_elements # <<>> => is_table_context(open_elements[Len(open_elements)])
          /\ \A i \in (Len(open_elements) + 1)..Len(so_before) :
                ~is_table_context(so_before[i])

C29_Witness ==
    /\ so_op.name = "pop_until"
    /\ Len(so_before) = 3
    /\ so_before[1].tag = so_op.tag_name
    /\ so_before[2].tag = so_op.tag_name
    /\ so_before[3].tag # so_op.tag_name
    /\ open_elements = <<so_before[1]>>

\* C30: the index found by searching from the top is the node's position:
\* last_element_with_tag_name(tag) returns (node, i) with get(i) being that
\* node, and remove_first_matching(test) removes exactly the topmost element
\* that passes test and leaves the others in place and in order.
C30_IndexFromTopIsPosition ==
    /\ (so_op.name = "last_element_with_tag_name" /\ so_result.kind = "Some") =>
          get(so_before, so_result.index) = so_result.node
    /\ so_op.name = "remove_first_matching" =>
          open_elements = without_topmost(so_before, so_op.test)

----------------------------------------------------------------------------
(* Properties of the scope checks                                          *)

\* The filter of the select scope with "and" in place of "or".
select_filter_and(item) == item # "option" /\ item # "optgroup"

\* An element named target is on the stack with no element of list above it.
in_scope(vec, target, list) ==
    \E i \in 1..Len(vec) :
        /\ vec[i].tag = target
        /\ \A j \in (i + 1)..Len(vec) : ~contains(list, vec[j].tag)

\* C31: for every stack and target, has_element_name_in_select_scope
\* returns what it returns with "and" in its filter and what
\* has_element_name_in_scope returns: true exactly when an element named
\* target is on the stack with no scope boundary above it.
C31_SelectScopeInsensitiveToFilter ==
    /\ so_op.name = "has_element_name_in_select_scope" =>
          /\ so_result.value =
                has_element_name_in_specific_scope(so_before, so_op.target,
                                                   SelectSeq(BASE_LIST, select_filter_and))
          /\ so_result.value =
                has_element_name_in_specific_scope(so_before, so_op.target, BASE_LIST)
          /\ so_result.value = in_scope(so_before, so_op.target, BASE_LIST)
    /\ so_op.name = "has_element_name_in_scope" =>
          so_result.value = in_scope(so_before, so_op.target, BASE_LIST)

\* A select-scope check that is false below an option: the td boundary hides
\* the select.
C31_Witness ==
    /\ so_op.name = "has_element_name_in_select_scope"
    /\ so_op.target = "select"
    /\ Len(so_before) = 3
    /\ so_before[1].tag = "select"
    /\ so_before[2].tag = "td"
    /\ so_before[3].tag = "option"
    /\ so_result.value = FALSE

----------------------------------------------------------------------------
(* Properties of Canvas                                                    *)

\* C32: in every state of the canvas, right after new and after any
\* resizes, the output buffer holds bytes_per_row x height bytes, with
\* bytes_per_row a multiple of the copy alignment and at least 4 x width;
\* output reads every row inside the buffer and returns 4 x width x height
\* bytes.
C32_OutputBufferHoldsEveryRow ==
    /\ output_buffer_size = get_bytes_per_row(frame_width) * frame_height
    /\ get_bytes_per_row(frame_width) % COPY_BYTES_PER_ROW_ALIGNMENT = 0
    /\ get_bytes_per_row(frame_width) >= 4 * frame_width
    /\ \A row \in 0..(frame_height - 1) :
          row * get_bytes_per_row(frame_width) + 4 * frame_width <= output_buffer_size
    /\ canvas_output.kind # "panic"
    /\ canvas_output.kind = "bytes" => canvas_output.len = 4 * frame_width * frame_height
====
